---- MODULE Spec2Model ----
(***************************************************************************)
(* Model of the SOQL builder of sfdevtools: the webview script of          *)
(* SoqlBuilderPanel (relationship tree, selection set, query synthesis,    *)
(* result table) together with the extension host handlers and the SfCli   *)
(* calls they make.                                                        *)
(*                                                                         *)
(* A relationship path or a field path is a dot-joined string in the code; *)
(* here it is the sequence of its segments, and Join(path, ".") is the     *)
(* string.  API names never contain a dot, so split('.') of the joined     *)
(* string gives the segments back.                                         *)
(***************************************************************************)
EXTENDS Integers, Sequences, FiniteSets, Bags, TLC

(***************************************************************************)
(* Bounds of the model.                                                    *)
(***************************************************************************)
\* messages posted to the host and not yet answered, plus replies not yet
\* delivered to the webview
MaxInFlight == 2
\* replies posted to the webview and not yet delivered
MaxInbox == 1

(***************************************************************************)
(* Generic helpers.                                                        *)
(***************************************************************************)
Range(s) == {s[i] : i \in DOMAIN s}

\* Array.prototype.join
RECURSIVE Join(_, _)
Join(s, sep) ==
    IF s = <<>> THEN ""
    ELSE IF Len(s) = 1 THEN s[1]
    ELSE s[1] \o sep \o Join(Tail(s), sep)

\* Array.prototype.filter with the predicate given as the set of kept values
RECURSIVE FilterSeq(_, _)
FilterSeq(s, keep) ==
    IF s = <<>> THEN <<>>
    ELSE IF s[1] \in keep THEN <<s[1]>> \o FilterSeq(Tail(s), keep)
    ELSE FilterSeq(Tail(s), keep)

\* collation order of the names of the model, as String.localeCompare
\* orders them
NameOrder ==
    <<"", "Account", "Attachments", "Case", "Cases", "ChildAccounts",
      "Contact", "ContactId", "CreatedDate", "Id", "LastName", "Name",
      "Order_Event__e", "Parent", "ParentId", "ReplayId", "Subject">>

Rank(n) == CHOOSE i \in DOMAIN NameOrder : NameOrder[i] = n

\* Array.prototype.sort (stable) by the rank of key[i], as index sequence
RECURSIVE SortIdx(_, _)
SortIdx(idxs, key) ==
    IF idxs = {} THEN <<>>
    ELSE LET m == CHOOSE i \in idxs :
                    \A j \in idxs : Rank(key[i]) < Rank(key[j])
                                    \/ (Rank(key[i]) = Rank(key[j]) /\ i <= j)
         IN <<m>> \o SortIdx(idxs \ {m}, key)

SortByKey(s, key) ==
    LET order == SortIdx(DOMAIN s, key)
    IN [i \in DOMAIN s |-> s[order[i]]]

(***************************************************************************)
(* The org: what `sf sobject list` and `sf sobject describe` report.       *)
(***************************************************************************)
Leaf(n, t) == [name |-> n, type |-> t, relationshipName |-> "",
               referenceTo |-> <<>>]
Ref(n, rel, target) == [name |-> n, type |-> "reference",
                        relationshipName |-> rel, referenceTo |-> <<target>>]
ChildRel(rel, child) == [relationshipName |-> rel, childSObject |-> child]

\* result.result of `sf sobject list --sobject all --json`, unsorted
CliSObjects == <<"Order_Event__e", "Account">>

\* result.result.fields of `sf sobject describe`, in the CLI's order; a
\* platform event has no Id and no Name field
CliFields(sobject) ==
    CASE sobject = "Account" ->
           <<Leaf("Name", "string"), Leaf("Id", "id"),
             Ref("ParentId", "Parent", "Account")>>
      [] sobject = "Order_Event__e" ->
           <<Leaf("ReplayId", "string"), Leaf("CreatedDate", "datetime")>>
      [] sobject = "Case" ->
           <<Leaf("Subject", "string"), Leaf("Id", "id"),
             Ref("ContactId", "Contact", "Contact")>>
      [] sobject = "Contact" ->
           <<Leaf("LastName", "string"), Leaf("Id", "id")>>
      [] sobject = "Attachment" ->
           <<Leaf("Name", "string"), Leaf("Id", "id")>>
      [] OTHER -> <<>>

\* result.result.childRelationships of `sf sobject describe`; a relationship
\* without a name has relationshipName null
CliChildRelationships(sobject) ==
    CASE sobject = "Account" ->
           <<ChildRel("", "AccountHistory"), ChildRel("ChildAccounts", "Account")>>
      [] sobject = "Case" ->
           <<ChildRel("Cases", "Case"), ChildRel("", "CaseHistory"),
             ChildRel("Attachments", "Attachment")>>
      [] sobject = "Contact" ->
           <<ChildRel("Cases", "Case"), ChildRel("Attachments", "Attachment"),
             ChildRel("", "ContactHistory")>>
      [] OTHER -> <<>>

(***************************************************************************)
(* SfCli                                                                   *)
(***************************************************************************)
\* outcomes of a CLI invocation: exit code 0 with status 0, or a failure
\* (exec rejects, or the JSON carries no usable result)
CliOutcomes == {"ok", "error"}

\* SfCli.listSObjects
listSObjects(cli) ==
    IF cli = "ok" THEN SortByKey(CliSObjects, CliSObjects) ELSE <<>>

\* describeSObject that leaves the child relationships in the CLI's order
describeSObjectUnsortedRels(sobject, cli) ==
    IF cli = "ok"
    THEN LET fs == CliFields(sobject)
             named == FilterSeq(CliChildRelationships(sobject),
                        {r \in Range(CliChildRelationships(sobject)) :
                            r.relationshipName # ""})
         IN [fields |-> SortByKey(fs, [i \in DOMAIN fs |-> fs[i].name]),
             childRelationships |-> named]
    ELSE [fields |-> <<>>, childRelationships |-> <<>>]

\* SfCli.describeSObject: every failure is caught and answered with empty
\* lists; nothing is thrown to the caller
describeSObject(sobject, cli) ==
    IF cli = "ok"
    THEN LET fs == CliFields(sobject)
             named == FilterSeq(CliChildRelationships(sobject),
                        {r \in Range(CliChildRelationships(sobject)) :
                            r.relationshipName # ""})
         IN [fields |-> SortByKey(fs, [i \in DOMAIN fs |-> fs[i].name]),
             childRelationships |->
                SortByKey(named,
                          [i \in DOMAIN named |-> named[i].relationshipName])]
    ELSE [fields |-> <<>>, childRelationships |-> <<>>]

(***************************************************************************)
(* State.                                                                  *)
(***************************************************************************)
VARIABLES
    allObjects,      \* webview: names shown in the object list
    currentObject,   \* webview: selected root object, "" before any selection
    baseFields,      \* webview: field list of the displayed root
    baseChildRels,   \* webview: child relationships of the displayed root
    relData,         \* webview: path -> [fields, childRelationships]
    selectedFields,  \* webview: Set of field paths, in insertion order
    queryText,       \* webview: value of the soql-query text box
    queryLoading,    \* webview: query-loading overlay shown
    allResults,      \* webview: record list of the last applied result
    currentPage,     \* webview: 1-based page
    pageSize,        \* webview: rows per page
    resultsList,     \* webview: content of the results-list element
    requests,        \* bag of the messages posted to the host whose handler
                     \* has not finished
    inbox,           \* messages posted to the webview, not yet delivered
    shownErrors,     \* host: error notifications shown to the user
    shownWarnings,   \* host: warning notifications shown to the user
    savedFiles,      \* host: the files written from the save dialog
    clipboard,       \* webview: the text last copied, "" before any copy
    metadataCache,   \* SfCli._metadataCache
    metadataCalls,   \* describeMetadata calls whose CLI command is running:
                     \* the bag of the orgs the commands read
    targetOrg,       \* the target-org of the CLI configuration
    orgSwitches,     \* setTargetOrg and login calls whose command is running
    metadataReturned,\* what the describeMetadata calls have returned
    manifestFile     \* the manifest file: its content, or Missing

vars == <<allObjects, currentObject, baseFields, baseChildRels, relData,
          selectedFields, queryText, queryLoading,
          allResults, currentPage, pageSize, resultsList, requests, inbox,
          shownErrors, shownWarnings, savedFiles, clipboard,
          metadataCache, metadataCalls, metadataReturned, targetOrg,
          orgSwitches, manifestFile>>

exportVars == <<shownWarnings, savedFiles, clipboard>>
cliVars == <<metadataCache, metadataCalls, metadataReturned, targetOrg,
             orgSwitches>>
panelVars == <<allObjects, currentObject, baseFields, baseChildRels, relData,
               selectedFields, queryText, queryLoading,
               allResults, currentPage, pageSize, resultsList, requests, inbox,
               shownErrors, shownWarnings, savedFiles, clipboard>>
treeVars == <<baseFields, baseChildRels, relData, selectedFields, queryText>>
resultVars == <<allResults, currentPage, pageSize, resultsList>>

NoRelData == [p \in {} |-> <<>>]
NoFiles == [f \in {} |-> ""]
\* SfCli._metadataCache undefined; no manifest file
NoCache == [t |-> "undefined"]
Missing == [t |-> "missing"]

Init ==
    /\ allObjects = <<>>
    /\ currentObject = ""
    /\ baseFields = <<>>
    /\ baseChildRels = <<>>
    /\ relData = NoRelData
    /\ selectedFields = <<>>
    /\ queryText = ""
    /\ queryLoading = FALSE
    /\ allResults = <<>>
    /\ currentPage = 1
    /\ pageSize = 50
    /\ resultsList = [kind |-> "initial"]
    /\ requests = SetToBag({[command |-> "getObjects"]})
    /\ inbox = <<>>
    /\ shownErrors = {}
    /\ shownWarnings = {}
    /\ savedFiles = NoFiles
    /\ clipboard = ""
    /\ metadataCache = NoCache
    /\ metadataCalls = EmptyBag
    /\ targetOrg = "dev"
    /\ orgSwitches = {}
    /\ metadataReturned = {}
    /\ manifestFile = Missing

InFlight == BagCardinality(requests) + Len(inbox)

\* vscode.postMessage from the webview
PostToHost(msg) ==
    /\ InFlight < MaxInFlight
    /\ requests' = requests (+) SetToBag({msg})

(***************************************************************************)
(* Webview: the relationship tree.  The fields-loading and rel-loading     *)
(* overlays only cover the lists while a describe call runs; no handler    *)
(* reads them and they are not part of the state.                         *)
(***************************************************************************)
MaxDepth == 5

NoElements == [expanders |-> {}, checkboxes |-> {}]

\* renderFieldList: the expanders and checkboxes it puts in the tree.  An
\* expander is [sobject, path, type, disabled]: the arguments of the
\* toggleRelationship call bound to its click, disabled when it has none.
RECURSIVE renderFieldList(_, _, _)
renderFieldList(fields, path, depth) ==
    IF fields = <<>> THEN NoElements
    ELSE LET f == Head(fields)
             fullPath == Append(path, f.name)
             relationshipPath == Append(path, f.relationshipName)
             expander ==
                IF f.type = "reference" /\ f.relationshipName # ""
                THEN {[sobject |-> f.referenceTo[1], path |-> relationshipPath,
                       type |-> "field", disabled |-> depth >= MaxDepth]}
                ELSE {}
             sub == IF relationshipPath \in DOMAIN relData
                    THEN renderFieldList(relData[relationshipPath].fields,
                                         relationshipPath, depth + 1)
                    ELSE NoElements
             rest == renderFieldList(Tail(fields), path, depth)
         IN [expanders |-> expander \cup sub.expanders \cup rest.expanders,
             checkboxes |-> {fullPath} \cup sub.checkboxes \cup rest.checkboxes]

\* renderChildRelList
RECURSIVE renderChildRelList(_, _)
renderChildRelList(rels, path) ==
    IF rels = <<>> THEN NoElements
    ELSE LET r == Head(rels)
             relPath == Append(path, r.relationshipName)
             expander == {[sobject |-> r.childSObject, path |-> relPath,
                           type |-> "rel", disabled |-> FALSE]}
             sub == IF relPath \in DOMAIN relData
                    THEN renderFieldList(relData[relPath].fields, relPath, 0)
                    ELSE NoElements
             rest == renderChildRelList(Tail(rels), path)
         IN [expanders |-> expander \cup sub.expanders \cup rest.expanders,
             checkboxes |-> sub.checkboxes \cup rest.checkboxes]

\* renderFields: the whole tree, from the state it is drawn from
renderFields ==
    LET fieldList == renderFieldList(baseFields, <<>>, 0)
        relList == IF baseChildRels # <<>>
                   THEN renderChildRelList(baseChildRels, <<>>)
                   ELSE NoElements
    IN [expanders |-> fieldList.expanders \cup relList.expanders,
        checkboxes |-> fieldList.checkboxes \cup relList.checkboxes]

(***************************************************************************)
(* Webview: query synthesis.                                               *)
(***************************************************************************)
\* the keys of the subqueries object listed by name instead of by insertion
SubqueryKeysByName(sel, childRelNames, seen) ==
    LET used == {sel[i][1] : i \in DOMAIN sel} \cap (childRelNames \ seen)
    IN CHOOSE o \in [1..Cardinality(used) -> used] :
          \A i, j \in DOMAIN o : i < j => Rank(o[i]) < Rank(o[j])

\* keys of the subqueries object, in insertion order
RECURSIVE SubqueryKeys(_, _, _)
SubqueryKeys(sel, childRelNames, seen) ==
    IF sel = <<>> THEN <<>>
    ELSE LET parts == Head(sel)
         IN IF parts[1] \in childRelNames /\ parts[1] \notin seen
            THEN <<parts[1]>>
                 \o SubqueryKeys(Tail(sel), childRelNames, seen \cup {parts[1]})
            ELSE SubqueryKeys(Tail(sel), childRelNames, seen)

\* subqueries[relName] assigned instead of pushed to: the last field only
RECURSIVE SubqueryFieldsLastOnly(_, _)
SubqueryFieldsLastOnly(sel, relName) ==
    IF sel = <<>> THEN <<>>
    ELSE LET parts == Head(sel)
             suffix == Join(Tail(parts), ".")
             rest == SubqueryFieldsLastOnly(Tail(sel), relName)
         IN IF parts[1] = relName /\ rest = <<>>
            THEN <<IF suffix # "" THEN suffix ELSE "Id">>
            ELSE rest

\* subqueries[relName]
RECURSIVE SubqueryFields(_, _)
SubqueryFields(sel, relName) ==
    IF sel = <<>> THEN <<>>
    ELSE LET parts == Head(sel)
             suffix == Join(Tail(parts), ".")
         IN IF parts[1] = relName
            THEN <<IF suffix # "" THEN suffix ELSE "Id">>
                 \o SubqueryFields(Tail(sel), relName)
            ELSE SubqueryFields(Tail(sel), relName)

\* standardFields
RECURSIVE StandardFields(_, _)
StandardFields(sel, childRelNames) ==
    IF sel = <<>> THEN <<>>
    ELSE IF Head(sel)[1] \in childRelNames
         THEN StandardFields(Tail(sel), childRelNames)
         ELSE <<Join(Head(sel), ".")>> \o StandardFields(Tail(sel), childRelNames)

\* the sub-select clauses appended without the separating comma
RECURSIVE SubqueryClausesNoComma(_, _)
SubqueryClausesNoComma(keys, sel) ==
    IF keys = <<>> THEN ""
    ELSE " (SELECT " \o Join(SubqueryFields(sel, Head(keys)), ", ")
         \o " FROM " \o Head(keys) \o ")"
         \o SubqueryClausesNoComma(Tail(keys), sel)

RECURSIVE SubqueryClauses(_, _)
SubqueryClauses(keys, sel) ==
    IF keys = <<>> THEN ""
    ELSE ", (SELECT " \o Join(SubqueryFields(sel, Head(keys)), ", ")
         \o " FROM " \o Head(keys) \o ")" \o SubqueryClauses(Tail(keys), sel)

\* updateQuery without the || 'Id' default of the direct field list
updateQueryNoDefault(object, childRels, sel, oldText) ==
    IF object = "" THEN oldText
    ELSE LET childRelNames == {childRels[i].relationshipName : i \in DOMAIN childRels}
             fieldsStr == Join(StandardFields(sel, childRelNames), ", ")
                \o SubqueryClauses(SubqueryKeys(sel, childRelNames, {}), sel)
         IN "SELECT " \o fieldsStr \o " FROM " \o object \o " LIMIT 2000"

\* updateQuery: the new value of the text box, given the old one
updateQuery(object, childRels, sel, oldText) ==
    IF object = "" THEN oldText
    ELSE LET childRelNames == {childRels[i].relationshipName : i \in DOMAIN childRels}
             standardFields == StandardFields(sel, childRelNames)
             direct == IF Join(standardFields, ", ") # ""
                       THEN Join(standardFields, ", ") ELSE "Id"
             fieldsStr == direct
                \o SubqueryClauses(SubqueryKeys(sel, childRelNames, {}), sel)
         IN "SELECT " \o fieldsStr \o " FROM " \o object \o " LIMIT 2000"

(***************************************************************************)
(* Query results.  A record is the sequence of its <<key, value>> entries  *)
(* in key order; a value is null, a scalar, a nested record or a           *)
(* sub-result {totalSize, records}.                                        *)
(***************************************************************************)
Null == [t |-> "null"]
Str(x) == [t |-> "scalar", s |-> x]
Obj(rec) == [t |-> "object", o |-> rec]
Sub(n, recs) == [t |-> "subresult", totalSize |-> n, records |-> recs]
KV(key, val) == [k |-> key, v |-> val]

Attributes(type) == KV("attributes", Obj(<<KV("type", Str(type))>>))

\* the other values of a result: a boolean, a number, a string that holds
\* double quotes (given by its pieces, each one the double quote or a text
\* without one), and undefined, the value of a property an object lacks
Undefined == [t |-> "undefined"]
Bool(b) == [t |-> "boolean", b |-> b]
Num(n) == [t |-> "number", n |-> n]
Quoted(pieces) == [t |-> "text", pieces |-> pieces]

\* the value as a condition: null, undefined, false, 0 and '' are falsy
Truthy(v) ==
    CASE v.t \in {"null", "undefined", "absent"} -> FALSE
      [] v.t = "boolean" -> v.b
      [] v.t = "number" -> v.n # 0
      [] v.t = "scalar" -> v.s # ""
      [] v.t = "text" -> v.pieces # <<>>
      [] OTHER -> TRUE

\* acc[part] for a truthy acc and a field or relationship name: the entry
\* of a record, the member of a sub-result, undefined on a primitive
Member(acc, part) ==
    IF acc.t = "object"
    THEN IF \E i \in DOMAIN acc.o : acc.o[i].k = part
         THEN acc.o[CHOOSE i \in DOMAIN acc.o : acc.o[i].k = part].v
         ELSE Undefined
    ELSE IF acc.t = "subresult"
    THEN IF part = "totalSize" THEN Str(acc.totalSize)
         ELSE IF part = "records" THEN [t |-> "array", a |-> acc.records]
         ELSE Undefined
    ELSE Undefined

\* path.split('.').reduce((acc, part) => acc && acc[part], obj)
RECURSIVE Reduce(_, _)
Reduce(acc, parts) ==
    IF parts = <<>> THEN acc
    ELSE Reduce(IF Truthy(acc) THEN Member(acc, Head(parts)) ELSE acc,
                Tail(parts))

\* a TypeError for reading a property of null or undefined
TypeError == [t |-> "TypeError"]

\* the reduce without the guard on the accumulator
RECURSIVE ReduceUnguarded(_, _)
ReduceUnguarded(acc, parts) ==
    IF parts = <<>> THEN acc
    ELSE IF acc.t \in {"null", "undefined", "TypeError"} THEN TypeError
    ELSE ReduceUnguarded(Member(acc, Head(parts)), Tail(parts))

\* getValueByPath without the guard
getValueByPathUnguarded(obj, path) ==
    IF path.subquery THEN Null ELSE ReduceUnguarded(Obj(obj), path.path)

\* getValueByPath; the names of a record's keys hold no ".", so splitting the
\* column name at "." gives back the segments the name was joined from
getValueByPath(obj, path) ==
    IF path.subquery THEN Null ELSE Reduce(Obj(obj), path.path)

RecordA ==
    <<Attributes("Account"), KV("Id", Str("001A")), KV("Name", Str("Acme")),
      KV("Parent", Obj(<<Attributes("Account"), KV("Name", Str("Holding"))>>))>>
RecordB ==
    <<Attributes("Account"), KV("Id", Str("001B")), KV("Name", Str("Bolt")),
      KV("Parent", Null),
      KV("ChildAccounts", Sub("1", <<<<KV("Id", Str("001A"))>>>>))>>

\* record lists the org answers a query with
ResultSets == {<<>>, <<RecordA>>, <<RecordA, RecordB>>}

\* a column name: the segments joined by ".", then " (Subquery)" for the
\* summary column of a sub-result
Column(segments, isSubquery) == [path |-> segments, subquery |-> isSubquery]
ColumnText(c) ==
    Join(c.path, ".") \o (IF c.subquery THEN " (Subquery)" ELSE "")

\* other.startsWith(c + '.') for two column names
StartsWithDot(other, c) ==
    /\ ~c.subquery
    /\ Len(other.path) > Len(c.path)
    /\ SubSeq(other.path, 1, Len(c.path)) = c.path

\* columns kept in an array instead of a Set: add appends every time
SetAddRepeating(set, x) == Append(set, x)

\* Set.add on a Set kept in insertion order
SetAdd(set, x) == IF x \in Range(set) THEN set ELSE Append(set, x)
\* Set.delete
SetDelete(set, x) == FilterSeq(set, Range(set) \ {x})

RECURSIVE SetAddAll(_, _)
SetAddAll(set, xs) ==
    IF xs = <<>> THEN set ELSE SetAddAll(SetAdd(set, Head(xs)), Tail(xs))

\* the sub-keys of a nested record taken without skipping attributes
RECURSIVE SubKeyColumnsAll(_, _)
SubKeyColumnsAll(key, rec) ==
    IF rec = <<>> THEN <<>>
    ELSE <<Column(<<key, Head(rec).k>>, FALSE)>> \o SubKeyColumnsAll(key, Tail(rec))

\* the columns one entry of a record adds
RECURSIVE SubKeyColumns(_, _)
SubKeyColumns(key, rec) ==
    IF rec = <<>> THEN <<>>
    ELSE IF Head(rec).k # "attributes"
         THEN <<Column(<<key, Head(rec).k>>, FALSE)>> \o SubKeyColumns(key, Tail(rec))
         ELSE SubKeyColumns(key, Tail(rec))

EntryColumns(e) ==
    IF e.k = "attributes" THEN <<>>
    ELSE IF e.v.t = "subresult" THEN <<Column(<<e.k>>, TRUE)>>
    ELSE IF e.v.t = "object" THEN SubKeyColumns(e.k, e.v.o)
    ELSE <<Column(<<e.k>>, FALSE)>>

RECURSIVE RecordColumns(_, _)
RecordColumns(columns, rec) ==
    IF rec = <<>> THEN columns
    ELSE RecordColumns(SetAddAll(columns, EntryColumns(Head(rec))), Tail(rec))

\* records.forEach: the columns the records add to the Set, in list order.
\* Adding the columns of the second half of the list, in the order that half
\* meets them, to the Set the first half leaves adds what the records of the
\* second half add one by one; halving keeps the evaluation shallow for
\* lists of a hundred records.
RECURSIVE AllColumns(_, _)
AllColumns(columns, records) ==
    IF records = <<>> THEN columns
    ELSE IF Len(records) = 1 THEN RecordColumns(columns, records[1])
    ELSE LET half == Len(records) \div 2
         IN SetAddAll(AllColumns(columns, SubSeq(records, 1, half)),
                      AllColumns(<<>>, SubSeq(records, half + 1, Len(records))))

\* extractColumns without the final filter
extractColumnsUnfiltered(records) == AllColumns(<<>>, records)

\* extractColumns whose final filter forgets the subquery keys
extractColumnsKeepSubqueryKeys(records) ==
    LET colsArray == AllColumns(<<>>, records)
        kept == {c \in Range(colsArray) :
                    ~\E other \in Range(colsArray) :
                        StartsWithDot(other, c) /\ other # c}
    IN FilterSeq(colsArray, kept)

\* extractColumns
extractColumns(records) ==
    LET colsArray == AllColumns(<<>>, records)
        subqueryKeys ==
            UNION {{r[i].k : i \in {j \in DOMAIN r :
                                       /\ r[j].k # "attributes"
                                       /\ r[j].v.t = "subresult"}} :
                   r \in Range(records)}
        kept == {c \in Range(colsArray) :
                    /\ ~(~c.subquery /\ Len(c.path) = 1 /\ c.path[1] \in subqueryKeys)
                    /\ ~\E other \in Range(colsArray) :
                           StartsWithDot(other, c) /\ other # c}
    IN FilterSeq(colsArray, kept)

Min(a, b) == IF a < b THEN a ELSE b
\* Math.ceil(a / b) for a >= 0, b > 0
CeilDiv(a, b) == (a + b - 1) \div b

\* Array.prototype.slice(start, end) for 0 <= start
Slice(s, start, end) ==
    IF start >= Min(end, Len(s)) THEN <<>>
    ELSE SubSeq(s, start + 1, Min(end, Len(s)))

\* a text given by its pieces
Flat(pieces) == Join(pieces, "")

\* String(v), by its pieces
StringPieces(v) ==
    CASE v.t = "scalar" -> IF v.s = "" THEN <<>> ELSE <<v.s>>
      [] v.t = "text" -> v.pieces
      [] v.t = "boolean" -> IF v.b THEN <<"true">> ELSE <<"false">>
      [] v.t = "number" -> <<ToString(v.n)>>
      [] v.t = "null" -> <<"null">>
      [] v.t = "undefined" -> <<"undefined">>
      [] OTHER -> <<"[object Object]">>

\* JSON.stringify(v), by its pieces
RECURSIVE Stringify(_), StringifyEntries(_), StringifyRecords(_)
Stringify(v) ==
    CASE v.t = "scalar" -> <<"\"">> \o StringPieces(v) \o <<"\"">>
      [] v.t = "text" ->
            LET Escaped(piece) == IF piece = "\"" THEN "\\\"" ELSE piece
            IN <<"\"">> \o [i \in DOMAIN v.pieces |-> Escaped(v.pieces[i])]
                        \o <<"\"">>
      [] v.t = "object" -> <<"{">> \o StringifyEntries(v.o) \o <<"}">>
      [] v.t = "subresult" ->
            <<"{\"totalSize\":", v.totalSize, ",\"records\":[">>
            \o StringifyRecords(v.records) \o <<"]}">>
      [] v.t = "array" -> <<"[">> \o StringifyRecords(v.a) \o <<"]">>
      [] OTHER -> StringPieces(v)
StringifyEntries(rec) ==
    IF rec = <<>> THEN <<>>
    ELSE <<"\"", Head(rec).k, "\":">> \o Stringify(Head(rec).v)
         \o (IF Len(rec) > 1 THEN <<",">> ELSE <<>>)
         \o StringifyEntries(Tail(rec))
StringifyRecords(recs) ==
    IF recs = <<>> THEN <<>>
    ELSE Stringify(Obj(Head(recs)))
         \o (IF Len(recs) > 1 THEN <<",">> ELSE <<>>)
         \o StringifyRecords(Tail(recs))

\* the cell renderResults builds for a record and a column: the summary of
\* a sub-result, the link of a record id, or a text
Cell(r, c) ==
    LET val == getValueByPath(r, c)
        subData == Member(Obj(r), c.path[1])
        td == IF c.subquery
              THEN IF Truthy(subData) /\ Truthy(Member(subData, "records"))
                   THEN [kind |-> "subquery",
                         text |-> subData.totalSize \o " records",
                         records |-> subData.records]
                   ELSE [kind |-> "text", text |-> ""]
              ELSE [kind |-> "text",
                    text |-> IF val.t \in {"null", "undefined"} THEN ""
                             ELSE IF val.t \in {"object", "subresult", "array"}
                                  THEN Flat(Stringify(val))
                                  ELSE Flat(StringPieces(val))]
    IN IF c = [path |-> <<"Id">>, subquery |-> FALSE] /\ Truthy(val)
       THEN [kind |-> "id-link", text |-> Flat(StringPieces(val))]
       ELSE td

\* the cells of the rows of a table
Cells(pageData, cols) ==
    [i \in DOMAIN pageData |-> [j \in DOMAIN cols |-> Cell(pageData[i], cols[j])]]

\* renderResults with the page taken as zero-based
renderResultsZeroBased(results, page, size) ==
    IF results = <<>> THEN [kind |-> "empty"]
    ELSE LET total == Len(results)
             start == page * size
             end == Min(start + size, total)
             pageData == Slice(results, start, end)
         IN [kind |-> "table", cols |-> extractColumns(pageData),
             rows |-> pageData,
             cells |-> Cells(pageData, extractColumns(pageData)),
             from |-> start + 1, to |-> end,
             total |-> total, page |-> page, pages |-> CeilDiv(total, size)]

\* renderResults: the content it gives the results-list element; a table is
\* given by its header columns and the records of its rows
renderResults(results, page, size) ==
    IF results = <<>> THEN [kind |-> "empty"]
    ELSE LET total == Len(results)
             start == (page - 1) * size
             end == Min(start + size, total)
             pageData == Slice(results, start, end)
         IN [kind |-> "table", cols |-> extractColumns(pageData),
             rows |-> pageData,
             cells |-> Cells(pageData, extractColumns(pageData)),
             from |-> start + 1, to |-> end,
             total |-> total, page |-> page, pages |-> CeilDiv(total, size)]

(***************************************************************************)
(* SfCli.executeQuery                                                      *)
(***************************************************************************)
\* what `sf data query` does: exits 0 with a result, exits 0 without one,
\* fails with or without a JSON error on stdout, or writes something that is
\* not JSON
CliQueryOutcomes ==
    {[kind |-> "ok", totalSize |-> Len(rs), records |-> rs] : rs \in ResultSets}
    \cup {[kind |-> "noresult"]}
    \cup {[kind |-> "fail", stdoutMessage |-> m, message |-> "Command failed"] :
            m \in {"Malformed Query", "", "nostdout"}}
    \cup {[kind |-> "notjson", message |-> "Unexpected token"]}

\* executeQuery that answers a failed command with an empty result
executeQuerySwallowing(cli) ==
    IF cli.kind = "ok"
    THEN [threw |-> FALSE, totalSize |-> cli.totalSize,
          records |-> cli.records, message |-> ""]
    ELSE [threw |-> FALSE, totalSize |-> 0, records |-> <<>>, message |-> ""]

\* SfCli.executeQuery: [threw, totalSize, records, message]
executeQuery(cli) ==
    IF cli.kind = "ok"
    THEN [threw |-> FALSE, totalSize |-> cli.totalSize,
          records |-> cli.records, message |-> ""]
    ELSE IF cli.kind = "noresult"
    THEN [threw |-> FALSE, totalSize |-> 0, records |-> <<>>, message |-> ""]
    ELSE IF cli.kind = "notjson"
    THEN [threw |-> TRUE, totalSize |-> 0, records |-> <<>>,
          message |-> cli.message]
    ELSE IF cli.stdoutMessage = "nostdout"
    THEN [threw |-> TRUE, totalSize |-> 0, records |-> <<>>,
          message |-> cli.message]
    ELSE [threw |-> TRUE, totalSize |-> 0, records |-> <<>>,
          message |-> IF cli.stdoutMessage # "" THEN cli.stdoutMessage
                      ELSE "Query failed"]

(***************************************************************************)
(* Webview: user events.                                                   *)
(***************************************************************************)
\* selectObject, bound to the click on an entry of the object list
SelectObject(obj) ==
    /\ obj \in Range(allObjects)
    /\ PostToHost([command |-> "describeObject", sobject |-> obj,
                   parentPath |-> <<>>])
    /\ currentObject' = obj
    /\ UNCHANGED <<allObjects, treeVars, queryLoading, resultVars, inbox,
                   shownErrors,
                   exportVars, cliVars, manifestFile>>

\* toggleRelationship without the cached-entry test: every click fetches
ToggleRelationshipAlwaysFetch(e) ==
    /\ e \in renderFields.expanders
    /\ ~e.disabled
    /\ PostToHost([command |-> "describeObject", sobject |-> e.sobject,
                   parentPath |-> e.path])
    /\ UNCHANGED <<allObjects, currentObject, treeVars, queryLoading,
                   resultVars, inbox, shownErrors,
                   exportVars, cliVars, manifestFile>>

\* toggleRelationship whose collapse also unselects the fields under the path
ToggleRelationshipUnselecting(e) ==
    /\ e \in renderFields.expanders
    /\ ~e.disabled
    /\ IF e.path \in DOMAIN relData
       THEN /\ relData' = [p \in DOMAIN relData \ {e.path} |-> relData[p]]
            /\ selectedFields' =
                  FilterSeq(selectedFields,
                            {f \in Range(selectedFields) :
                                ~(Len(f) > Len(e.path)
                                  /\ SubSeq(f, 1, Len(e.path)) = e.path)})
            /\ queryText' = updateQuery(currentObject, baseChildRels,
                                        selectedFields', queryText)
            /\ UNCHANGED requests
       ELSE /\ PostToHost([command |-> "describeObject", sobject |-> e.sobject,
                           parentPath |-> e.path])
            /\ UNCHANGED <<relData, selectedFields, queryText>>
    /\ UNCHANGED <<allObjects, currentObject, baseFields, baseChildRels,
                   queryLoading, resultVars, inbox, shownErrors,
                   exportVars, cliVars, manifestFile>>

\* toggleRelationship whose collapse also drops the entries of longer paths
ToggleRelationshipCollapsingSubtree(e) ==
    /\ e \in renderFields.expanders
    /\ ~e.disabled
    /\ IF e.path \in DOMAIN relData
       THEN /\ relData' =
                  [p \in {q \in DOMAIN relData :
                             ~(Len(q) >= Len(e.path)
                               /\ SubSeq(q, 1, Len(e.path)) = e.path)} |->
                      relData[p]]
            /\ UNCHANGED requests
       ELSE /\ PostToHost([command |-> "describeObject", sobject |-> e.sobject,
                           parentPath |-> e.path])
            /\ UNCHANGED relData
    /\ UNCHANGED <<allObjects, currentObject, baseFields, baseChildRels,
                   selectedFields, queryText, queryLoading, resultVars, inbox,
                   shownErrors,
                   exportVars, cliVars, manifestFile>>

\* toggleRelationship, bound to the click on an enabled expander of the tree
ToggleRelationship(e) ==
    /\ e \in renderFields.expanders
    /\ ~e.disabled
    /\ IF e.path \in DOMAIN relData
       THEN /\ relData' = [p \in DOMAIN relData \ {e.path} |-> relData[p]]
            /\ UNCHANGED requests
       ELSE /\ PostToHost([command |-> "describeObject", sobject |-> e.sobject,
                           parentPath |-> e.path])
            /\ UNCHANGED relData
    /\ UNCHANGED <<allObjects, currentObject, baseFields, baseChildRels,
                   selectedFields, queryText, queryLoading, resultVars, inbox,
                   shownErrors,
                   exportVars, cliVars, manifestFile>>

\* an onchange handler that adds whatever the new state of the box is
cbOnChangeAddOnly(sel, fullPath, checked) == SetAdd(sel, fullPath)

\* the onchange handler of the checkbox of fullPath, for the new state
\* `checked` of the box
cbOnChange(sel, fullPath, checked) ==
    IF checked THEN SetAdd(sel, fullPath) ELSE SetDelete(sel, fullPath)

\* the user clicks the checkbox of fullPath: the box, drawn checked iff
\* fullPath is selected, flips and its onchange handler runs
ToggleField(fullPath) ==
    /\ fullPath \in renderFields.checkboxes
    /\ LET checked == fullPath \notin Range(selectedFields)
       IN selectedFields' = cbOnChange(selectedFields, fullPath, checked)
    /\ queryText' = updateQuery(currentObject, baseChildRels, selectedFields',
                                queryText)
    /\ UNCHANGED <<allObjects, currentObject, baseFields, baseChildRels,
                   relData, queryLoading, resultVars, requests, inbox,
                   shownErrors,
                   exportVars, cliVars, manifestFile>>

\* texts the user types into the query box
QueryTexts == {"", "SELECT Id FROM Contact"}

\* the user overwrites the content of the soql-query text box
EditQuery(text) ==
    /\ text # queryText
    /\ queryText' = text
    /\ UNCHANGED <<allObjects, currentObject, baseFields, baseChildRels,
                   relData, selectedFields, queryLoading, resultVars, requests,
                   inbox, shownErrors,
                   exportVars, cliVars, manifestFile>>

\* runQuery without the test of the text
RunQueryUnchecked ==
    /\ PostToHost([command |-> "runQuery", query |-> queryText])
    /\ resultsList' = [kind |-> "spinner"]
    /\ queryLoading' = TRUE
    /\ UNCHANGED <<allObjects, currentObject, treeVars, allResults, currentPage, pageSize, inbox,
                   shownErrors,
                   exportVars, cliVars, manifestFile>>

\* runQuery, bound to the Run Query button
RunQuery ==
    /\ queryText # ""
    /\ PostToHost([command |-> "runQuery", query |-> queryText])
    /\ resultsList' = [kind |-> "spinner"]
    /\ queryLoading' = TRUE
    /\ UNCHANGED <<allObjects, currentObject, treeVars, allResults, currentPage, pageSize, inbox,
                   shownErrors,
                   exportVars, cliVars, manifestFile>>

(***************************************************************************)
(* Extension host: onDidReceiveMessage.  A handler awaits the CLI, so the  *)
(* handlers of the posted messages finish in any order.                    *)
(***************************************************************************)
HostReply(req, msg) ==
    /\ Len(inbox) < MaxInbox
    /\ requests' = requests (-) SetToBag({req})
    /\ inbox' = Append(inbox, msg)

\* case 'getObjects' (data mode)
HostGetObjects(req, cli) ==
    /\ BagIn(req, requests)
    /\ req.command = "getObjects"
    /\ HostReply(req, [command |-> "setObjects", objects |-> listSObjects(cli)])
    /\ UNCHANGED <<allObjects, currentObject, treeVars, queryLoading,
                   resultVars, shownErrors,
                   exportVars, cliVars, manifestFile>>

\* case 'describeObject'.  describeSObject does not throw, so the catch
\* branch (error notification, stopFieldsLoading) is never taken.  The
\* reply carries fields, childRelationships and parentPath; forObject is
\* not part of the message, it records which request the reply answers.
HostDescribeObject(req, cli) ==
    /\ BagIn(req, requests)
    /\ req.command = "describeObject"
    /\ LET described == describeSObject(req.sobject, cli)
       IN HostReply(req, [command |-> "setFields",
                        fields |-> described.fields,
                        childRelationships |-> described.childRelationships,
                        parentPath |-> req.parentPath,
                        forObject |-> req.sobject])
    /\ UNCHANGED <<allObjects, currentObject, treeVars, queryLoading,
                   resultVars, shownErrors,
                   exportVars, cliVars, manifestFile>>

\* case 'runQuery'
HostRunQuery(req, cli) ==
    /\ BagIn(req, requests)
    /\ req.command = "runQuery"
    /\ LET result == executeQuery(cli)
       IN IF result.threw
          THEN /\ shownErrors' = shownErrors
                                 \cup {"Query failed: " \o result.message}
               /\ HostReply(req, [command |-> "stopQueryLoading"])
          ELSE /\ HostReply(req, [command |-> "setResults",
                                totalSize |-> result.totalSize,
                                records |-> result.records])
               /\ UNCHANGED shownErrors
    /\ UNCHANGED <<allObjects, currentObject, treeVars, queryLoading,
                   resultVars, exportVars, cliVars, manifestFile>>

(***************************************************************************)
(* Webview: the message listener.                                          *)
(***************************************************************************)
\* case 'setObjects'
ReceiveSetObjects ==
    /\ inbox # <<>>
    /\ Head(inbox).command = "setObjects"
    /\ allObjects' = Head(inbox).objects
    /\ inbox' = Tail(inbox)
    /\ UNCHANGED <<currentObject, treeVars, queryLoading, resultVars, requests,
                   shownErrors,
                   exportVars, cliVars, manifestFile>>

HasField(fields, n) == \E i \in DOMAIN fields : fields[i].name = n

\* a seeding that selects Id whether or not the object has it
DefaultSelectionAlwaysId(fields) ==
    <<<<"Id">>>> \o (IF HasField(fields, "Name") THEN <<<<"Name">>>> ELSE <<>>)

\* the selection a root schema is seeded with
DefaultSelection(fields) ==
    (IF HasField(fields, "Id") THEN <<<<"Id">>>> ELSE <<>>)
    \o (IF HasField(fields, "Name") THEN <<<<"Name">>>> ELSE <<>>)

\* case 'setFields'
ReceiveSetFields ==
    /\ inbox # <<>>
    /\ Head(inbox).command = "setFields"
    /\ LET m == Head(inbox)
       IN IF m.parentPath = <<>>
          THEN /\ baseFields' = m.fields
               /\ baseChildRels' = m.childRelationships
               /\ relData' = NoRelData
               /\ selectedFields' = DefaultSelection(m.fields)
          ELSE /\ relData' =
                    [p \in DOMAIN relData \cup {m.parentPath} |->
                        IF p = m.parentPath
                        THEN [fields |-> m.fields,
                              childRelationships |-> m.childRelationships]
                        ELSE relData[p]]
               /\ UNCHANGED <<baseFields, baseChildRels, selectedFields>>
    /\ queryText' = updateQuery(currentObject, baseChildRels', selectedFields',
                                queryText)
    /\ inbox' = Tail(inbox)
    /\ UNCHANGED <<allObjects, currentObject, queryLoading, resultVars,
                   requests, shownErrors,
                   exportVars, cliVars, manifestFile>>

\* case 'setResults' without the reset of the current page
ReceiveSetResultsKeepingPage ==
    /\ inbox # <<>>
    /\ Head(inbox).command = "setResults"
    /\ allResults' = Head(inbox).records
    /\ resultsList' = renderResults(allResults', currentPage, pageSize)
    /\ queryLoading' = FALSE
    /\ inbox' = Tail(inbox)
    /\ UNCHANGED <<allObjects, currentObject, treeVars, currentPage, pageSize,
                   requests, shownErrors, exportVars, cliVars, manifestFile>>

\* case 'setResults'
ReceiveSetResults ==
    /\ inbox # <<>>
    /\ Head(inbox).command = "setResults"
    /\ allResults' = Head(inbox).records
    /\ currentPage' = 1
    /\ resultsList' = renderResults(allResults', currentPage', pageSize)
    /\ queryLoading' = FALSE
    /\ inbox' = Tail(inbox)
    /\ UNCHANGED <<allObjects, currentObject, treeVars, pageSize, requests, shownErrors,
                   exportVars, cliVars, manifestFile>>

\* commands the listener's switch has a case for
HandledCommands == {"setObjects", "setFields", "setResults", "stopFieldsLoading"}

\* a message with any other command falls through the switch
ReceiveUnhandled ==
    /\ inbox # <<>>
    /\ Head(inbox).command \notin HandledCommands
    /\ inbox' = Tail(inbox)
    /\ UNCHANGED <<allObjects, currentObject, treeVars, queryLoading,
                   resultVars, requests, shownErrors,
                   exportVars, cliVars, manifestFile>>

(***************************************************************************)
(* Webview: paging of the results.  The pagination footer is shown by      *)
(* renderResults when there are records and hidden when there are none, so *)
(* its buttons, its page size choice and its page input can be used only   *)
(* while allResults has records; renderResults also sets which of the Prev *)
(* and Next buttons are disabled.                                          *)
(***************************************************************************)
PaginationShown == allResults # <<>>
PrevDisabled == currentPage = 1
NextDisabled ==
    Min((currentPage - 1) * pageSize + pageSize, Len(allResults))
        >= Len(allResults)

\* the choices of page-size-select
PageSizes == {10, 25, 50, 100, 500}

\* parseInt of the content of jump-page-input
NaN == [nan |-> TRUE, n |-> 0]
ParsedInt(i) == [nan |-> FALSE, n |-> i]

\* nextPage, bound to the Next button
NextPage ==
    /\ PaginationShown
    /\ ~NextDisabled
    /\ currentPage' = currentPage + 1
    /\ resultsList' = renderResults(allResults, currentPage', pageSize)
    /\ UNCHANGED <<allObjects, currentObject, treeVars, queryLoading,
                   allResults, pageSize, requests, inbox, shownErrors,
                   exportVars, cliVars, manifestFile>>

\* prevPage, bound to the Prev button
PrevPage ==
    /\ PaginationShown
    /\ ~PrevDisabled
    /\ currentPage' = currentPage - 1
    /\ resultsList' = renderResults(allResults, currentPage', pageSize)
    /\ UNCHANGED <<allObjects, currentObject, treeVars, queryLoading,
                   allResults, pageSize, requests, inbox, shownErrors,
                   exportVars, cliVars, manifestFile>>

\* jumpToPage: the test of the value typed
JumpTaken(val, results, size) ==
    ~val.nan /\ val.n >= 1 /\ val.n <= CeilDiv(Len(results), size)

\* jumpToPage that takes every number typed
jumpToPageUnchecked(page, val, results, size) ==
    IF ~val.nan THEN val.n ELSE page

\* jumpToPage: the current page it leaves
jumpToPage(page, val, results, size) ==
    IF JumpTaken(val, results, size) THEN val.n ELSE page

\* Enter pressed in jump-page-input, which holds val; renderResults runs
\* only if the page is taken
JumpToPage(val) ==
    /\ PaginationShown
    /\ currentPage' = jumpToPage(currentPage, val, allResults, pageSize)
    /\ resultsList' = IF JumpTaken(val, allResults, pageSize)
                      THEN renderResults(allResults, currentPage', pageSize)
                      ELSE resultsList
    /\ UNCHANGED <<allObjects, currentObject, treeVars, queryLoading,
                   allResults, pageSize, requests, inbox, shownErrors,
                   exportVars, cliVars, manifestFile>>

\* updatePageSize, bound to the change of page-size-select
UpdatePageSize(size) ==
    /\ PaginationShown
    /\ size \in PageSizes
    /\ size # pageSize
    /\ pageSize' = size
    /\ currentPage' = 1
    /\ resultsList' = renderResults(allResults, currentPage', pageSize')
    /\ UNCHANGED <<allObjects, currentObject, treeVars, queryLoading,
                   allResults, requests, inbox, shownErrors,
                   exportVars, cliVars, manifestFile>>

(***************************************************************************)
(* Webview: export of the results, from the Export menu.                   *)
(***************************************************************************)
\* the export columns without the filter on the summary columns
exportColumnsAll(results) == extractColumns(results)

\* extractColumns(allResults).filter(c => !c.endsWith(' (Subquery)'))
exportColumns(results) ==
    LET NotSummary(c) == ~c.subquery
    IN SelectSeq(extractColumns(results), NotSummary)

\* String.prototype.replace(/"/g, '""') on a text given by its pieces
ReplaceQuotes(pieces) ==
    [i \in DOMAIN pieces |-> IF pieces[i] = "\"" THEN "\"\"" ELSE pieces[i]]

\* the cell written with its double quotes left single
ExportCellUndoubled(r, c) ==
    LET val == getValueByPath(r, c)
    IN <<"\"">> \o (IF Truthy(val) THEN StringPieces(val) ELSE <<>>) \o <<"\"">>

\* `"${String(getValueByPath(r, c) || '').replace(/"/g, '""')}"`, by its
\* pieces
ExportCell(r, c) ==
    LET val == getValueByPath(r, c)
        text == IF Truthy(val) THEN StringPieces(val) ELSE <<>>
    IN <<"\"">> \o ReplaceQuotes(text) \o <<"\"">>

\* the cells of a record written without those of an empty value
ExportRowSkippingEmpty(r, cols) ==
    LET HasValue(c) == Truthy(getValueByPath(r, c))
        written == SelectSeq(cols, HasValue)
    IN [j \in DOMAIN written |-> ExportCell(r, written[j])]

\* cols.map(c => ...) for one record
ExportRow(r, cols) == [j \in DOMAIN cols |-> ExportCell(r, cols[j])]

Separator(format) == IF format = "csv" THEN "," ELSE "\t"
FileName(format) == IF format = "csv" THEN "export.csv" ELSE "export.xls"

\* the text of the rows, each one joined by the separator and ended by a
\* newline
RECURSIVE RowsText(_, _)
RowsText(rows, separator) ==
    IF rows = <<>> THEN ""
    ELSE Join([j \in DOMAIN Head(rows) |-> Flat(Head(rows)[j])], separator)
         \o "\n" \o RowsText(Tail(rows), separator)

\* exportData that writes the records of the first page only
exportDataFirstPage(results, format) ==
    LET separator == Separator(format)
        shown == Slice(results, 0, 10)
        cols == exportColumns(shown)
        rows == [i \in DOMAIN shown |-> ExportRow(shown[i], cols)]
    IN [separator |-> separator, cols |-> cols, rows |-> rows,
        content |-> Join([j \in DOMAIN cols |-> ColumnText(cols[j])], separator)
                    \o "\n" \o RowsText(rows, separator),
        fileName |-> FileName(format)]

\* exportData, up to the content it builds: the columns, the cells of the
\* rows by their pieces, and the content
exportData(results, format) ==
    LET separator == Separator(format)
        cols == exportColumns(results)
        rows == [i \in DOMAIN results |-> ExportRow(results[i], cols)]
    IN [separator |-> separator, cols |-> cols, rows |-> rows,
        content |-> Join([j \in DOMAIN cols |-> ColumnText(cols[j])], separator)
                    \o "\n" \o RowsText(rows, separator),
        fileName |-> FileName(format)]

Formats == {"csv", "xlsx"}
ExportActions == {"copy", "download"}

\* exportData(format, action), bound to the four entries of the Export menu
ExportData(format, action) ==
    /\ allResults # <<>>
    /\ LET out == exportData(allResults, format)
       IN IF action = "copy"
          THEN /\ clipboard' = out.content
               /\ PostToHost([command |-> "showWarning",
                              text |-> "Copied to clipboard"])
          ELSE /\ PostToHost([command |-> "saveFile",
                              content |-> out.content,
                              fileName |-> out.fileName])
               /\ UNCHANGED clipboard
    /\ UNCHANGED <<allObjects, currentObject, treeVars, queryLoading,
                   resultVars, inbox, shownErrors, shownWarnings, savedFiles,
                   cliVars, manifestFile>>

\* what the save dialog and the write end with
SaveOutcomes == {"saved", "cancelled", "failed"}

\* case 'saveFile': the user is offered the file name in the workspace
\* folder; the file is written unless the dialog is cancelled
HostSaveFile(req, outcome) ==
    /\ BagIn(req, requests)
    /\ req.command = "saveFile"
    /\ requests' = requests (-) SetToBag({req})
    /\ savedFiles' =
          IF outcome = "saved"
          THEN [f \in DOMAIN savedFiles \cup {req.fileName} |->
                   IF f = req.fileName THEN req.content ELSE savedFiles[f]]
          ELSE savedFiles
    /\ shownErrors' =
          IF outcome = "failed"
          THEN shownErrors \cup {"Failed to save file: EACCES"}
          ELSE shownErrors
    /\ UNCHANGED <<allObjects, currentObject, treeVars, queryLoading,
                   resultVars, inbox, shownWarnings, clipboard,
                   cliVars, manifestFile>>

\* case 'showWarning'
HostShowWarning(req) ==
    /\ BagIn(req, requests)
    /\ req.command = "showWarning"
    /\ requests' = requests (-) SetToBag({req})
    /\ shownWarnings' = shownWarnings \cup {req.text}
    /\ UNCHANGED <<allObjects, currentObject, treeVars, queryLoading,
                   resultVars, inbox, shownErrors, savedFiles, clipboard,
                   cliVars, manifestFile>>

(***************************************************************************)
(* SfCli.describeMetadata                                                  *)
(***************************************************************************)
\* order of the names of metadata types and manifest members by their
\* UTF-16 code units, as Array.prototype.sort without a comparator orders
\* them
CodeUnitOrder ==
    <<"ApexClass", "Class1", "Class2", "CustomField", "CustomObject",
      "ExistingClass", "ListView", "MyClass", "NewClass">>
CodeUnitRank(n) == CHOOSE i \in DOMAIN CodeUnitOrder : CodeUnitOrder[i] = n

\* Array.prototype.sort() of an array of names
RECURSIVE SortDefault(_)
SortDefault(names) ==
    IF names = <<>> THEN <<>>
    ELSE LET m == CHOOSE i \in DOMAIN names :
                    \A j \in DOMAIN names :
                       \/ CodeUnitRank(names[i]) < CodeUnitRank(names[j])
                       \/ (CodeUnitRank(names[i]) = CodeUnitRank(names[j]) /\ i <= j)
         IN <<names[m]>>
            \o SortDefault([k \in 1..(Len(names) - 1) |->
                              IF k < m THEN names[k] ELSE names[k + 1]])

\* result.result.metadataObjects of `sf org list metadata-types`: every
\* object has its xmlName and the list of its childXmlNames
MaxMetadataObjects == 2
MetadataObject(xmlName, childXmlNames) ==
    [xmlName |-> xmlName, childXmlNames |-> childXmlNames]
MetadataObjects ==
    {MetadataObject("ApexClass", <<>>),
     MetadataObject("CustomObject", <<"CustomField">>),
     MetadataObject("CustomObject", <<"ListView", "CustomField">>),
     MetadataObject("CustomField", <<>>)}
MetadataReports ==
    UNION {[1..n -> MetadataObjects] : n \in 0..MaxMetadataObjects}

\* what the CLI command does: reports metadata objects, answers without
\* them, or fails
MetadataOutcomes ==
    {[kind |-> "ok", metadataObjects |-> r] : r \in MetadataReports}
    \cup {[kind |-> "noresult"], [kind |-> "fail"]}

\* metadataObjects.forEach: the names added to the Set
RECURSIVE MetadataTypes(_, _)
MetadataTypes(types, metadataObjects) ==
    IF metadataObjects = <<>> THEN types
    ELSE LET obj == Head(metadataObjects)
         IN MetadataTypes(IF obj.xmlName # ""
                          THEN SetAddAll(SetAdd(types, obj.xmlName),
                                         obj.childXmlNames)
                          ELSE types,
                          Tail(metadataObjects))

\* the list taken from the Set without sorting it
describeMetadataUnsorted(cli) ==
    IF cli.kind = "ok"
    THEN [cached |-> TRUE, types |-> MetadataTypes(<<>>, cli.metadataObjects)]
    ELSE [cached |-> FALSE, types |-> <<>>]

\* describeMetadata after the CLI command: the list returned, and whether it
\* is stored in the cache
describeMetadata(cli) ==
    IF cli.kind = "ok"
    THEN [cached |-> TRUE,
          types |-> SortDefault(MetadataTypes(<<>>, cli.metadataObjects))]
    ELSE [cached |-> FALSE, types |-> <<>>]

MaxMetadataCalls == 2

\* describeMetadata(refresh) up to its await: the cached list is returned,
\* or the CLI command is started; the command reads the target-org of the
\* configuration.  The org of a list is kept with it to tell where it was
\* fetched from; the code does not keep it.
DescribeMetadataCall(refresh) ==
    /\ IF ~refresh /\ metadataCache # NoCache
       THEN /\ metadataReturned' = {[types |-> metadataCache.types,
                                    source |-> "cache",
                                    org |-> metadataCache.org]}
            /\ UNCHANGED metadataCalls
       ELSE /\ BagCardinality(metadataCalls) < MaxMetadataCalls
            /\ metadataCalls' = metadataCalls (+) SetToBag({targetOrg})
            /\ UNCHANGED metadataReturned
    /\ UNCHANGED <<panelVars, metadataCache, targetOrg, orgSwitches,
                   manifestFile>>

\* describeMetadata after its await
DescribeMetadataReturn(cli) ==
    \E org \in BagToSet(metadataCalls) :
       /\ metadataCalls' = metadataCalls (-) SetToBag({org})
       /\ LET described == describeMetadata(cli)
          IN /\ metadataCache' =
                   IF described.cached
                   THEN [t |-> "array", types |-> described.types, org |-> org]
                   ELSE metadataCache
             /\ metadataReturned' =
                   {IF cli.kind = "ok"
                    THEN [types |-> described.types, source |-> "cli",
                          report |-> cli.metadataObjects, org |-> org]
                    ELSE [types |-> described.types, source |-> "failure",
                          org |-> org]}
       /\ UNCHANGED <<panelVars, targetOrg, orgSwitches, manifestFile>>

\* the orgs the user is authorized for
Orgs == {"dev", "prod"}

\* setTargetOrg(usernameOrAlias) and login() up to their await: the cache is
\* cleared, then the CLI command is started
SwitchOrgCall(op, org) ==
    /\ op \in {"setTargetOrg", "login"}
    /\ org \in Orgs
    /\ [op |-> op, org |-> org] \notin orgSwitches
    /\ metadataCache' = NoCache
    /\ orgSwitches' = orgSwitches \cup {[op |-> op, org |-> org]}
    /\ UNCHANGED <<panelVars, metadataCalls, metadataReturned, targetOrg,
                   manifestFile>>

\* setTargetOrg and login after their await: `sf config set target-org` or
\* `sf org login web --set-default` has set the target org, or has failed
\* and the call throws
SwitchOrgReturn(switch, cli) ==
    /\ switch \in orgSwitches
    /\ orgSwitches' = orgSwitches \ {switch}
    /\ targetOrg' = IF cli = "ok" THEN switch.org ELSE targetOrg
    /\ UNCHANGED <<panelVars, metadataCache, metadataCalls, metadataReturned,
                   manifestFile>>

(***************************************************************************)
(* ManifestHelper.  The content of a manifest is the sequence of its       *)
(* pieces: a tag, a name between two tags, any other text without          *)
(* whitespace around it, or the whitespace between two of these.           *)
(***************************************************************************)
W0 == "\n"
W4 == "\n    "
W8 == "\n        "
Whitespace == {W0, W4, W8}
Tags ==
    {"<types>", "</types>", "<members>", "</members>", "<name>", "</name>",
     "</Package>"}
Prolog == "<?xml version=\"1.0\" encoding=\"UTF-8\"?>"
PackageOpen == "<Package xmlns=\"http://soap.sforce.com/2006/04/metadata\">"
VersionLine == "<version>62.0</version>"

\* the content updateManifest and clearManifest start a new file with
NewManifest == <<Prolog, W0, PackageOpen, W4, VersionLine, W0, "</Package>">>

\* first position of a piece at or after a position, 0 if there is none
IndexFrom(content, piece, from) ==
    IF \E i \in from..Len(content) : content[i] = piece
    THEN CHOOSE i \in from..Len(content) :
            /\ content[i] = piece
            /\ \A j \in from..(i - 1) : content[j] # piece
    ELSE 0

\* /<types>([\s\S]*?)<\/types>/g, match after match: where each block opens
\* and closes
RECURSIVE TypeBlocks(_, _)
TypeBlocks(content, from) ==
    LET open == IndexFrom(content, "<types>", from)
        close == IF open = 0 THEN 0
                 ELSE IndexFrom(content, "</types>", open + 1)
    IN IF open = 0 \/ close = 0 THEN <<>>
       ELSE <<[open |-> open, close |-> close]>>
            \o TypeBlocks(content, close + 1)

\* positions in a block where a tag, a name on the same line and the closing
\* tag follow each other
Enclosed(typeBlock, tag, closing) ==
    {k \in DOMAIN typeBlock :
        /\ typeBlock[k] = tag
        /\ k + 2 <= Len(typeBlock)
        /\ typeBlock[k + 1] \notin Tags \cup Whitespace
        /\ typeBlock[k + 2] = closing}

\* the blocks with what the two inner expressions find in them: nameMatch
\* and the members, in their order
ParsedBlocks(content) ==
    LET blocks == TypeBlocks(content, 1)
        Parsed(b) ==
           LET typeBlock == SubSeq(content, b.open + 1, b.close - 1)
               names == Enclosed(typeBlock, "<name>", "</name>")
               members == Enclosed(typeBlock, "<members>", "</members>")
               InMembers(k) == k \in members
               at == SelectSeq([k \in DOMAIN typeBlock |-> k], InMembers)
           IN [nameMatch |-> names # {},
               typeName |-> IF names = {} THEN ""
                            ELSE typeBlock[(CHOOSE k \in names :
                                              \A l \in names : k <= l) + 1],
               members |-> [i \in DOMAIN at |-> typeBlock[at[i] + 1]]]
    IN [i \in DOMAIN blocks |-> Parsed(blocks[i])]

\* the names of a set, as Array.from(set).sort() lists them
RECURSIVE SortSet(_)
SortSet(names) ==
    IF names = {} THEN <<>>
    ELSE LET m == CHOOSE n \in names :
                    \A o \in names : CodeUnitRank(n) <= CodeUnitRank(o)
         IN <<m>> \o SortSet(names \ {m})

\* String.prototype.trim on a content
RECURSIVE Trim(_)
Trim(content) ==
    IF content = <<>> THEN <<>>
    ELSE IF Head(content) \in Whitespace THEN Trim(Tail(content))
    ELSE IF content[Len(content)] \in Whitespace
         THEN Trim(SubSeq(content, 1, Len(content) - 1))
    ELSE content

\* xmlContent.replace(/<types>[\s\S]*?<\/types>\s*/g, '')
StripTypes(content) ==
    LET blocks == TypeBlocks(content, 1)
        Removed(k) ==
           \E i \in DOMAIN blocks :
              \/ blocks[i].open <= k /\ k <= blocks[i].close
              \/ /\ k > blocks[i].close
                 /\ \A l \in (blocks[i].close + 1)..k : content[l] \in Whitespace
        Kept(k) == ~Removed(k)
        at == SelectSeq([k \in DOMAIN content |-> k], Kept)
    IN [i \in DOMAIN at |-> content[at[i]]]

\* newXml.replace('</Package>', ''): the first one only
RemoveClosingTag(content) ==
    LET at == IndexFrom(content, "</Package>", 1)
    IN IF at = 0 THEN content
       ELSE SubSeq(content, 1, at - 1) \o SubSeq(content, at + 1, Len(content))

\* the <types> blocks written for the types, each with its members
RECURSIVE TypesString(_, _)
TypesString(sortedTypes, membersOf) ==
    IF sortedTypes = <<>> THEN <<>>
    ELSE LET type == Head(sortedTypes)
             members == SortSet(membersOf[type])
             MemberLines[i \in 0..Len(members)] ==
                IF i = 0 THEN <<>>
                ELSE MemberLines[i - 1]
                     \o <<"<members>", members[i], "</members>", W8>>
         IN <<W4, "<types>", W8>> \o MemberLines[Len(members)]
            \o <<"<name>", type, "</name>", W4, "</types>">>
            \o TypesString(Tail(sortedTypes), membersOf)

\* mergeItems that keeps the given items only
mergeItemsReplacing(xmlContent, items) ==
    LET types == {items[i].type : i \in DOMAIN items}
        membersOf == [t \in types |->
                        {items[i].fullName : i \in {j \in DOMAIN items :
                                                       items[j].type = t}}]
        newXml == Trim(RemoveClosingTag(StripTypes(xmlContent)))
    IN newXml \o TypesString(SortSet(types), membersOf) \o <<W0, "</Package>">>

\* mergeItems
mergeItems(xmlContent, items) ==
    LET parsed == ParsedBlocks(xmlContent)
        named == {i \in DOMAIN parsed : parsed[i].nameMatch}
        types == {items[i].type : i \in DOMAIN items}
                 \cup {parsed[i].typeName : i \in named}
        membersOf ==
           [t \in types |->
               {items[i].fullName : i \in {j \in DOMAIN items : items[j].type = t}}
               \cup UNION {Range(parsed[i].members) :
                              i \in {j \in named : parsed[j].typeName = t}}]
        newXml == Trim(RemoveClosingTag(StripTypes(xmlContent)))
    IN newXml \o TypesString(SortSet(types), membersOf) \o <<W0, "</Package>">>

Item(type, fullName) == [type |-> type, fullName |-> fullName]

\* readManifest: the items of the file, in its order
readManifest(file) ==
    IF file = Missing THEN <<>>
    ELSE LET parsed == ParsedBlocks(file.content)
             ItemsFrom[i \in 0..Len(parsed)] ==
                IF i = 0 THEN <<>>
                ELSE ItemsFrom[i - 1]
                     \o (IF parsed[i].nameMatch
                         THEN [k \in DOMAIN parsed[i].members |->
                                 Item(parsed[i].typeName, parsed[i].members[k])]
                         ELSE <<>>)
         IN ItemsFrom[Len(parsed)]

File(content) == [t |-> "file", content |-> content]

\* updateManifest: the file it writes
updateManifest(file, items) ==
    File(mergeItems(IF file = Missing THEN NewManifest ELSE file.content, items))

\* the items callers add: classes and objects
MaxManifestItems == 2
ManifestItems ==
    {Item(t, n) : t \in {"ApexClass", "CustomObject"},
                  n \in {"Class1", "MyClass", "NewClass"}}
ItemLists == UNION {[1..n -> ManifestItems] : n \in 0..MaxManifestItems}

\* manifests written by hand or by other tools: with the version after the
\* types, with a type in two blocks and a member twice, with a block without
\* a name, and an empty file
WrittenTypes(type, members) ==
    LET MemberLines[i \in 0..Len(members)] ==
           IF i = 0 THEN <<>>
           ELSE MemberLines[i - 1] \o <<W8, "<members>", members[i], "</members>">>
    IN <<"<types>">> \o MemberLines[Len(members)]
       \o <<W8, "<name>", type, "</name>", W4, "</types>">>
ExistingManifest ==
    <<Prolog, W0, PackageOpen, W4>>
    \o WrittenTypes("ApexClass", <<"ExistingClass">>)
    \o <<W4, VersionLine, W0, "</Package>">>
HandWrittenManifests ==
    {ExistingManifest,
     <<Prolog, W0, PackageOpen, W4>>
     \o WrittenTypes("ApexClass", <<"Class2", "Class1", "Class2">>)
     \o <<W4>> \o WrittenTypes("ApexClass", <<"MyClass">>)
     \o <<W4, VersionLine, W0, "</Package>">>,
     <<Prolog, W0, PackageOpen, W4, "<types>", W8, "<members>", "Class1",
       "</members>", W4, "</types>", W4>>
     \o WrittenTypes("CustomObject", <<>>)
     \o <<W4, VersionLine, W0, "</Package>">>,
     <<>>}

\* updateManifest; without a path and without a workspace folder it throws
\* before it touches a file
UpdateManifest(items, located) ==
    /\ manifestFile' = IF located THEN updateManifest(manifestFile, items)
                       ELSE manifestFile
    /\ UNCHANGED <<panelVars, cliVars>>

\* clearManifest
ClearManifest ==
    /\ manifestFile' = File(NewManifest)
    /\ UNCHANGED <<panelVars, cliVars>>

\* deleteManifests, for the path of the file
DeleteManifests ==
    /\ manifestFile' = Missing
    /\ UNCHANGED <<panelVars, cliVars>>

\* the file is written outside the extension
EditManifest(content) ==
    /\ manifestFile' = File(content)
    /\ UNCHANGED <<panelVars, cliVars>>

(***************************************************************************)
(* Specifications.                                                         *)
(***************************************************************************)
ObjectList ==
    \/ \E req \in BagToSet(requests), cli \in CliOutcomes : HostGetObjects(req, cli)
    \/ ReceiveSetObjects

\* the expanders and the checkboxes the user clicks in the general
\* specification, when the tree shows them
UserExpands == {<<"Parent">>, <<"ChildAccounts">>}
UserToggles ==
    {<<"Name">>, <<"Parent", "Name">>, <<"ChildAccounts", "Name">>}

\* the relationship tree and the selection
NextTree ==
    \/ ObjectList
    \/ \E obj \in Range(allObjects) : SelectObject(obj)
    \/ \E e \in renderFields.expanders :
          e.path \in UserExpands /\ ToggleRelationship(e)
    \/ \E fullPath \in renderFields.checkboxes \cap UserToggles :
          ToggleField(fullPath)
    \/ \E req \in BagToSet(requests), cli \in CliOutcomes :
          HostDescribeObject(req, cli)
    \/ ReceiveSetFields

Spec == Init /\ [][NextTree]_vars

\* the relationship tree of Account, expanded as deep as the expanders allow:
\* the user only expands and every describe call succeeds
NextDepth ==
    \/ ObjectList
    \/ SelectObject("Account")
    \/ \E e \in renderFields.expanders :
          e.path \notin DOMAIN relData /\ ToggleRelationship(e)
    \/ \E req \in BagToSet(requests) : HostDescribeObject(req, "ok")
    \/ ReceiveSetFields

SpecDepth == Init /\ [][NextDepth]_vars

\* running queries
NextQuery ==
    \/ ObjectList
    \/ \E text \in QueryTexts : EditQuery(text)
    \/ RunQuery
    \/ \E req \in BagToSet(requests), cli \in CliQueryOutcomes :
          HostRunQuery(req, cli)
    \/ ReceiveSetResults
    \/ ReceiveUnhandled

SpecQuery == Init /\ [][NextQuery]_vars

\* updateQuery as a function of the state it reads: the root object, the
\* child relationships known for it and the selection, in insertion order
MaxSynthSelected == 3
SynthObjects == {"", "Account", "Order_Event__e"}
SynthChildRels ==
    {<<>>, <<ChildRel("Contacts", "Contact")>>,
     <<ChildRel("ChildAccounts", "Account"), ChildRel("Contacts", "Contact")>>}
SynthPaths ==
    {<<"Id">>, <<"Name">>, <<"Parent", "Name">>, <<"Contacts">>,
     <<"Contacts", "LastName">>, <<"Contacts", "Account", "Name">>,
     <<"ChildAccounts", "Name">>}
\* the contents a Set of members of S can have, up to n members
SetContents(S, n) ==
    {s \in UNION {[1..k -> S] : k \in 0..n} :
        \A i, j \in DOMAIN s : s[i] = s[j] => i = j}

InitSynth ==
    /\ allObjects = <<>>
    /\ currentObject \in SynthObjects
    /\ baseFields = <<>>
    /\ baseChildRels \in SynthChildRels
    /\ relData = NoRelData
    /\ selectedFields \in SetContents(SynthPaths, MaxSynthSelected)
    /\ queryText = ""
    /\ queryLoading = FALSE
    /\ allResults = <<>>
    /\ currentPage = 1
    /\ pageSize = 50
    /\ resultsList = [kind |-> "initial"]
    /\ requests = EmptyBag
    /\ inbox = <<>>
    /\ shownErrors = {}
    /\ shownWarnings = {}
    /\ savedFiles = NoFiles
    /\ clipboard = ""
    /\ metadataCache = NoCache
    /\ metadataCalls = EmptyBag
    /\ targetOrg = "dev"
    /\ orgSwitches = {}
    /\ metadataReturned = {}
    /\ manifestFile = Missing

\* a call of updateQuery()
Synthesize ==
    /\ queryText' = updateQuery(currentObject, baseChildRels, selectedFields,
                                queryText)
    /\ UNCHANGED <<allObjects, currentObject, baseFields, baseChildRels,
                   relData, selectedFields, queryLoading, resultVars,
                   requests, inbox, shownErrors,
                   exportVars, cliVars, manifestFile>>

SpecSynth == InitSynth /\ [][Synthesize]_vars

\* record lists for the result table: every record has the keys of
\* SELECT Id, Owner.Name, Owner.Id, (SELECT LastName FROM Contacts) that the
\* service returned for it, with the value it returned
MaxRecords == 2
Absent == [t |-> "absent"]
IdValues == {Absent, Str("001A")}
OwnerValues ==
    {Absent, Null, Str("005A"),
     Obj(<<Attributes("User"), KV("Name", Str("Ann")), KV("Id", Str("005A"))>>),
     Obj(<<Attributes("User"), KV("Name", Quoted(<<"He said ", "\"", "hi", "\"">>)),
           KV("IsActive", Bool(FALSE)),
           KV("Profile", Obj(<<Attributes("Profile"), KV("Name", Str("Admin"))>>))>>)}
ContactsValues ==
    {Absent, Null,
     Sub("1", <<<<Attributes("Contact"), KV("LastName", Str("Lee"))>>>>)}
MakeRecord(entries) ==
    LET Present(e) == e.v # Absent
    IN <<Attributes("Account")>> \o SelectSeq(entries, Present)
OwnerExample ==
    <<<<KV("Id", Str("1")), KV("Owner", Obj(<<KV("Name", Str("A"))>>))>>,
      <<KV("Id", Str("2")), KV("Owner", Obj(<<KV("Name", Str("B"))>>))>>>>
DataRecords ==
    {MakeRecord(<<KV("Id", i), KV("Owner", o), KV("Contacts", c)>>) :
        i \in IdValues, o \in OwnerValues, c \in ContactsValues}
    \cup {MakeRecord(<<KV("Contacts", c), KV("Owner", Null), KV("Id", Str("001B"))>>) :
            c \in (ContactsValues \ {Absent}) \cup {Str("none")}}
    \cup Range(OwnerExample)
RecordLists == UNION {[1..n -> DataRecords] : n \in 0..MaxRecords}

\* the state runQuery leaves: the request posted, the spinner shown
InitColumns ==
    /\ allObjects = <<"Account", "Order_Event__e">>
    /\ currentObject = ""
    /\ baseFields = <<>>
    /\ baseChildRels = <<>>
    /\ relData = NoRelData
    /\ selectedFields = <<>>
    /\ queryText = "SELECT Id FROM Contact"
    /\ queryLoading = TRUE
    /\ allResults = <<>>
    /\ currentPage = 1
    /\ pageSize = 50
    /\ resultsList = [kind |-> "spinner"]
    /\ requests = SetToBag({[command |-> "runQuery", query |-> queryText]})
    /\ inbox = <<>>
    /\ shownErrors = {}
    /\ shownWarnings = {}
    /\ savedFiles = NoFiles
    /\ clipboard = ""
    /\ metadataCache = NoCache
    /\ metadataCalls = EmptyBag
    /\ targetOrg = "dev"
    /\ orgSwitches = {}
    /\ metadataReturned = {}
    /\ manifestFile = Missing

\* the query answers with a record list and the table is drawn
NextColumns ==
    \/ \E req \in BagToSet(requests), rs \in RecordLists :
          HostRunQuery(req, [kind |-> "ok", totalSize |-> Len(rs),
                             records |-> rs])
    \/ ReceiveSetResults

SpecColumns == InitColumns /\ [][NextColumns]_vars

\* paging: the query answers with a list of numbered records, from none to
\* 120, and the user pages through it
ResultCounts == {0, 1, 10, 11, 25, 26, 50, 51, 100, 101, 120}
NumberedRecords(n) ==
    [i \in 1..n |-> <<Attributes("Account"), KV("Id", Str(ToString(i)))>>]
JumpValues == {NaN} \cup {ParsedInt(i) : i \in -1..13}

NextPages ==
    \/ \E req \in BagToSet(requests), n \in ResultCounts :
          HostRunQuery(req, [kind |-> "ok", totalSize |-> n,
                             records |-> NumberedRecords(n)])
    \/ ReceiveSetResults
    \/ NextPage
    \/ PrevPage
    \/ \E val \in JumpValues : JumpToPage(val)
    \/ \E size \in PageSizes : UpdatePageSize(size)

SpecPages == InitColumns /\ [][NextPages]_vars

\* export: the query answers with a list of account records, short or of
\* eleven records so that the table has a second page, and the user pages
\* through it and exports it
QuotedExample == Quoted(<<"He said ", "\"", "hi", "\"">>)
ExportA ==
    <<Attributes("Account"), KV("Id", Str("001A")), KV("Name", QuotedExample),
      KV("Owner", Obj(<<Attributes("User"), KV("Name", Str("Ann"))>>))>>
ExportB ==
    <<Attributes("Account"), KV("Id", Str("001B")), KV("Name", Str("Bolt")),
      KV("Owner", Null),
      KV("Contacts", Sub("1", <<<<Attributes("Contact"),
                                  KV("LastName", Str("Lee"))>>>>))>>
ExportC ==
    <<Attributes("Account"), KV("Id", Str("001C")),
      KV("NumberOfEmployees", Num(0)),
      KV("Owner", Obj(<<Attributes("User"), KV("Name", Str("Bo")),
                        KV("IsActive", Bool(FALSE)),
                        KV("Profile", Obj(<<Attributes("Profile"),
                                            KV("Name", Str("Admin"))>>))>>))>>
ExportD == <<Attributes("Account"), KV("Name", Str("Solo, Inc"))>>
ExportRecords == {ExportA, ExportB, ExportC, ExportD}
ElevenRecords(a, b) == [i \in 1..11 |-> IF i <= 10 THEN a ELSE b]
ExportLists ==
    {<<>>} \cup {<<r>> : r \in ExportRecords}
    \cup {<<ExportA, ExportB>>, <<ExportB, ExportC>>, <<ExportC, ExportD>>,
          <<ExportD, ExportA>>}
    \cup {ElevenRecords(ExportA, ExportB), ElevenRecords(ExportD, ExportC)}
ExportPageSizes == {10, 50}

NextExport ==
    \/ \E req \in BagToSet(requests), rs \in ExportLists :
          HostRunQuery(req, [kind |-> "ok", totalSize |-> Len(rs),
                             records |-> rs])
    \/ ReceiveSetResults
    \/ NextPage
    \/ PrevPage
    \/ \E size \in ExportPageSizes : UpdatePageSize(size)
    \/ \E format \in Formats, action \in ExportActions :
          ExportData(format, action)
    \/ \E req \in BagToSet(requests), outcome \in SaveOutcomes :
          HostSaveFile(req, outcome)
    \/ \E req \in BagToSet(requests) : HostShowWarning(req)

SpecExport == InitColumns /\ [][NextExport]_vars

\* describing: an org whose object list is Case and Contact; the list is
\* loaded, the user selects objects and expands their relationships
InitDescribe ==
    /\ allObjects = <<"Case", "Contact">>
    /\ currentObject = ""
    /\ baseFields = <<>>
    /\ baseChildRels = <<>>
    /\ relData = NoRelData
    /\ selectedFields = <<>>
    /\ queryText = ""
    /\ queryLoading = FALSE
    /\ allResults = <<>>
    /\ currentPage = 1
    /\ pageSize = 50
    /\ resultsList = [kind |-> "initial"]
    /\ requests = EmptyBag
    /\ inbox = <<>>
    /\ shownErrors = {}
    /\ shownWarnings = {}
    /\ savedFiles = NoFiles
    /\ clipboard = ""
    /\ metadataCache = NoCache
    /\ metadataCalls = EmptyBag
    /\ targetOrg = "dev"
    /\ orgSwitches = {}
    /\ metadataReturned = {}
    /\ manifestFile = Missing

NextDescribe ==
    \/ \E obj \in Range(allObjects) : SelectObject(obj)
    \/ \E e \in renderFields.expanders :
          Len(e.path) = 1 /\ ToggleRelationship(e)
    \/ \E req \in BagToSet(requests), cli \in CliOutcomes :
          HostDescribeObject(req, cli)
    \/ ReceiveSetFields

SpecDescribe == InitDescribe /\ [][NextDescribe]_vars

\* the metadata types: callers ask for them with and without refresh
NextMetadata ==
    \/ \E refresh \in BOOLEAN : DescribeMetadataCall(refresh)
    \/ \E cli \in MetadataOutcomes : DescribeMetadataReturn(cli)

SpecMetadata == Init /\ [][NextMetadata]_vars

\* the manifest: items are added to it, it is cleared, deleted and edited
NextManifest ==
    \/ \E items \in ItemLists, located \in BOOLEAN : UpdateManifest(items, located)
    \/ ClearManifest
    \/ DeleteManifests
    \/ \E content \in HandWrittenManifests : EditManifest(content)

SpecManifest == Init /\ [][NextManifest]_vars

\* running the text of the box: the default synthesized for the selected
\* object, or what the user typed over it, or nothing
RunOutcomes ==
    {cli \in CliQueryOutcomes :
        \/ cli.kind = "ok" /\ cli.records = <<RecordA>>
        \/ cli.kind = "fail" /\ cli.stdoutMessage = "Malformed Query"}

NextRun ==
    \/ ObjectList
    \/ SelectObject("Account")
    \/ \E req \in BagToSet(requests) : HostDescribeObject(req, "ok")
    \/ ReceiveSetFields
    \/ \E text \in QueryTexts : EditQuery(text)
    \/ RunQuery
    \/ \E req \in BagToSet(requests), cli \in RunOutcomes :
          HostRunQuery(req, cli)
    \/ ReceiveSetResults
    \/ ReceiveUnhandled

SpecRun == Init /\ [][NextRun]_vars

\* the relationship tree of Account while the user also types into the
\* query box; every describe call succeeds
NextEdit ==
    \/ ObjectList
    \/ SelectObject("Account")
    \/ \E e \in renderFields.expanders :
          e.path \in UserExpands /\ ToggleRelationship(e)
    \/ \E fullPath \in renderFields.checkboxes \cap UserToggles :
          ToggleField(fullPath)
    \/ \E req \in BagToSet(requests) : HostDescribeObject(req, "ok")
    \/ ReceiveSetFields
    \/ \E text \in QueryTexts : EditQuery(text)

SpecEdit == Init /\ [][NextEdit]_vars

\* the tree of Case, selected once, with both child relationships expanded:
\* the user checks and unchecks root fields and fields under the two
\* relationships
OrderToggles ==
    {<<"Id">>, <<"Subject">>, <<"Cases", "Subject">>, <<"Cases", "Id">>,
     <<"Attachments", "Name">>}

NextOrder ==
    \/ currentObject = "" /\ SelectObject("Case")
    \/ \E e \in renderFields.expanders :
          /\ Len(e.path) = 1
          /\ e.path \notin DOMAIN relData
          /\ ToggleRelationship(e)
    \/ \E req \in BagToSet(requests) : HostDescribeObject(req, "ok")
    \/ ReceiveSetFields
    \/ \E fullPath \in renderFields.checkboxes \cap OrderToggles :
          ToggleField(fullPath)

SpecOrder == InitDescribe /\ [][NextOrder]_vars

\* the query is run again and again, answering with lists of 0 to 26
\* records, while the user pages through the table and changes the page size
PagingCounts == {0, 1, 11, 26}
PagingSizes == {10, 25}
PagingJumps == {NaN} \cup {ParsedInt(i) : i \in 0..4}

NextPaging ==
    \/ RunQuery
    \/ \E req \in BagToSet(requests), n \in PagingCounts :
          HostRunQuery(req, [kind |-> "ok", totalSize |-> n,
                             records |-> NumberedRecords(n)])
    \/ ReceiveSetResults
    \/ NextPage
    \/ PrevPage
    \/ \E val \in PagingJumps : JumpToPage(val)
    \/ \E size \in PagingSizes : UpdatePageSize(size)

SpecPaging == InitColumns /\ [][NextPaging]_vars

\* the tree of Account, selected once: the user expands and collapses
\* relationships of the first and of the second level
NestedExpands ==
    {<<"Parent">>, <<"Parent", "Parent">>,
     <<"ChildAccounts">>, <<"ChildAccounts", "Parent">>}

NextNested ==
    \/ ObjectList
    \/ currentObject = "" /\ SelectObject("Account")
    \/ \E e \in renderFields.expanders :
          e.path \in NestedExpands /\ ToggleRelationship(e)
    \/ \E req \in BagToSet(requests), cli \in CliOutcomes :
          HostDescribeObject(req, cli)
    \/ ReceiveSetFields

SpecNested == Init /\ [][NextNested]_vars

\* the metadata types across org switches: lists are asked for while the
\* user switches the target org or logs in to another org
SwitchReports ==
    {[kind |-> "ok", metadataObjects |-> <<MetadataObject("ApexClass", <<>>)>>],
     [kind |-> "fail"]}

NextOrgs ==
    \/ \E refresh \in BOOLEAN : DescribeMetadataCall(refresh)
    \/ \E cli \in SwitchReports : DescribeMetadataReturn(cli)
    \/ \E op \in {"setTargetOrg", "login"}, org \in Orgs : SwitchOrgCall(op, org)
    \/ \E switch \in orgSwitches, cli \in CliOutcomes :
          SwitchOrgReturn(switch, cli)

SpecOrgs == Init /\ [][NextOrgs]_vars

(***************************************************************************)
(* Steps of the webview, recognised by what they do to the state.          *)
(***************************************************************************)
\* the listener is about to apply a schema reply for the root object
RootReplyAtHead ==
    /\ inbox # <<>>
    /\ Head(inbox).command = "setFields"
    /\ Head(inbox).parentPath = <<>>

\* the listener is about to apply a schema reply for a relationship path
PathReplyAtHead ==
    /\ inbox # <<>>
    /\ Head(inbox).command = "setFields"
    /\ Head(inbox).parentPath # <<>>

\* the step delivers the message at the head of the inbox
Delivers == inbox # <<>> /\ inbox' = Tail(inbox)

\* the step is a collapse: an entry leaves relData and no message is delivered
Collapses(path) ==
    /\ inbox' = inbox
    /\ path \in DOMAIN relData
    /\ path \notin DOMAIN relData'

\* describe requests the step posts
PostedDescribes ==
    {r \in BagToSet(requests') :
        /\ r.command = "describeObject"
        /\ CopiesIn(r, requests') > CopiesIn(r, requests)}

AccountFields == describeSObject("Account", "ok").fields
EventFields == describeSObject("Order_Event__e", "ok").fields

(***************************************************************************)
(* C1.  A schema reply for a root object that is no longer the selected    *)
(* one is discarded: delivering it changes neither the root field list,    *)
(* the child relationships, the expanded paths, the SelectionSet nor the   *)
(* query text.                                                             *)
(***************************************************************************)
C1_StaleRootReplyDiscarded ==
    [][(RootReplyAtHead /\ Head(inbox).forObject # currentObject /\ Delivers)
        => UNCHANGED treeVars]_vars

(***************************************************************************)
(* C2.  No describe request is posted for, and relData holds no entry for, *)
(* a path of more than five segments, whether the chain starts at a root   *)
(* field or under a child relationship.                                    *)
(***************************************************************************)
C2_PathDepthAtMostFive ==
    /\ \A p \in DOMAIN relData : Len(p) <= MaxDepth
    /\ \A r \in BagToSet(requests) :
          r.command = "describeObject" => Len(r.parentPath) <= MaxDepth
    /\ \A i \in DOMAIN inbox :
          inbox[i].command = "setFields" => Len(inbox[i].parentPath) <= MaxDepth

\* no query is running: no runQuery handler is pending and no reply to one
\* waits for delivery
QueryQuiescent ==
    /\ \A r \in BagToSet(requests) : r.command # "runQuery"
    /\ \A i \in DOMAIN inbox :
          inbox[i].command \notin {"setResults", "stopQueryLoading"}

(***************************************************************************)
(* C3.  Once the reply to every run-query request has been delivered,      *)
(* whether the query succeeded or failed, the query loading indicator is   *)
(* hidden.                                                                 *)
(***************************************************************************)
C3_QueryLoadingHiddenAfterReply == QueryQuiescent => ~queryLoading

(***************************************************************************)
(* C4.  After a failed query (its reply delivered, no other query          *)
(* running) the results list shows the table of the last applied result:   *)
(* the record list, page and table of the last successful run, or the      *)
(* initial placeholder before any.                                         *)
(***************************************************************************)
C4_FailedQueryKeepsLastTable ==
    QueryQuiescent =>
        resultsList \in {[kind |-> "initial"],
                         renderResults(allResults, currentPage, pageSize)}

(***************************************************************************)
(* C5.  When the describe call behind an expansion fails (the reply has no *)
(* fields), the path has no entry in relData after the reply is delivered  *)
(* and an error notification has been shown.                               *)
(***************************************************************************)
C5_FailedExpandCollapsedAndReported ==
    [][(PathReplyAtHead /\ Head(inbox).fields = <<>> /\ Delivers)
        => /\ Head(inbox).parentPath \notin DOMAIN relData'
           /\ shownErrors' # {}]_vars

(***************************************************************************)
(* C6.  When a describe call fails or returns no fields, for a path or for *)
(* the root object, delivering its reply leaves the SelectionSet as it     *)
(* was.                                                                    *)
(***************************************************************************)
C6_FailedDescribeKeepsSelection ==
    [][(inbox # <<>> /\ Head(inbox).command = "setFields"
        /\ Head(inbox).fields = <<>> /\ Delivers)
        => selectedFields' = selectedFields]_vars

C8_CollapseKeepsSelection ==
    [][(\E p \in DOMAIN relData : Collapses(p))
        => /\ selectedFields' = selectedFields
           /\ queryText' = queryText
           /\ updateQuery(currentObject', baseChildRels', selectedFields', "")
              = updateQuery(currentObject, baseChildRels, selectedFields, "")]_vars

\* a field under ChildAccounts is selected and ChildAccounts is collapsed
C8_Witness ==
    /\ \E f \in Range(selectedFields) : Len(f) = 2 /\ f[1] = "ChildAccounts"
    /\ <<"ChildAccounts">> \notin DOMAIN relData
    /\ baseFields = AccountFields

(***************************************************************************)
(* C9.  In every reachable state, clicking the checkbox of a field path    *)
(* twice in a row leaves the SelectionSet with the members it had.         *)
(***************************************************************************)
C9_ToggleTwiceSameMembers ==
    \A fullPath \in renderFields.checkboxes :
        LET checked == fullPath \notin Range(selectedFields)
            once == cbOnChange(selectedFields, fullPath, checked)
            twice == cbOnChange(once, fullPath, ~checked)
        IN /\ Range(twice) = Range(selectedFields)
           /\ Len(twice) = Len(selectedFields)
           /\ (fullPath \in Range(once)) # (fullPath \in Range(selectedFields))

\* Id was unchecked and checked again: same members, Id now last
C9_Witness ==
    /\ baseFields = AccountFields
    /\ selectedFields = <<<<"Id">>, <<"Parent", "Name">>, <<"Name">>>>

(***************************************************************************)
(* C10 as stated.  Applying a root schema (a describe result that has      *)
(* fields) clears relData and makes the SelectionSet Id, plus Name if the  *)
(* object has a field named Name.                                          *)
(***************************************************************************)
C10_RootLoadSelectsIdAndName ==
    [][(RootReplyAtHead /\ Head(inbox).fields # <<>> /\ Delivers)
        => /\ relData' = NoRelData
           /\ Range(selectedFields') =
                {<<"Id">>} \cup (IF HasField(baseFields', "Name")
                                 THEN {<<"Name">>} ELSE {})]_vars

(***************************************************************************)
(* C10 as amended.  Applying a root schema clears relData and makes the    *)
(* SelectionSet Id if the object has a field named Id, plus Name if it has *)
(* a field named Name, and nothing else.                                   *)
(***************************************************************************)
C10_RootLoadSelectsPresentDefaults ==
    [][(RootReplyAtHead /\ Delivers)
        => /\ relData' = NoRelData
           /\ baseFields' = Head(inbox).fields
           /\ Range(selectedFields') =
                (IF HasField(baseFields', "Id") THEN {<<"Id">>} ELSE {})
                \cup (IF HasField(baseFields', "Name")
                      THEN {<<"Name">>} ELSE {})]_vars

\* the platform event was loaded over an Account tree: an expansion
\* requested under Account is still in flight, nothing is selected or
\* expanded
C10_Witness ==
    /\ baseFields = EventFields
    /\ selectedFields = <<>>
    /\ relData = NoRelData
    /\ \E r \in BagToSet(requests) :
          r.command = "describeObject" /\ r.parentPath # <<>>

(***************************************************************************)
(* The query text as the specification describes it: the direct fields     *)
(* joined by ", " (Id when there are none), one sub-select clause per      *)
(* relationship with a selected path, the clauses in the order relOrder    *)
(* and each opened by opener, then the root object and the limit.          *)
(***************************************************************************)
ChildRelNames(rels) == {rels[i].relationshipName : i \in DOMAIN rels}

DirectTexts(sel, rels) ==
    LET IsDirect(p) == p[1] \notin ChildRelNames(rels)
        direct == SelectSeq(sel, IsDirect)
    IN [i \in DOMAIN direct |-> Join(direct[i], ".")]

SubSelectTexts(sel, rel) ==
    LET InRel(p) == p[1] = rel
        under == SelectSeq(sel, InRel)
    IN [i \in DOMAIN under |->
           IF Len(under[i]) > 1 THEN Join(Tail(under[i]), ".") ELSE "Id"]

UsedRels(sel, rels) == {sel[i][1] : i \in DOMAIN sel} \cap ChildRelNames(rels)

DescribedText(root, rels, sel, relOrder, opener) ==
    LET direct == DirectTexts(sel, rels)
        clauses == [i \in DOMAIN relOrder |->
                       opener \o Join(SubSelectTexts(sel, relOrder[i]), ", ")
                       \o " FROM " \o relOrder[i] \o ")"]
    IN "SELECT " \o (IF direct = <<>> THEN "Id" ELSE Join(direct, ", "))
       \o Join(clauses, "") \o " FROM " \o root \o " LIMIT 2000"

\* the orders in which the used relationships can be listed
RelOrders(sel, rels) ==
    {o \in SetContents(UsedRels(sel, rels), Cardinality(UsedRels(sel, rels))) :
        Len(o) = Cardinality(UsedRels(sel, rels))}

\* updateQuery has run for a selected root object
Synthesized == currentObject # "" /\ queryText # ""

ContactsExample ==
    /\ currentObject = "Account"
    /\ "Contacts" \in ChildRelNames(baseChildRels)
    /\ selectedFields = <<<<"Id">>, <<"Name">>, <<"Contacts", "LastName">>>>

C12_NoDirectPathSelectsId ==
    Synthesized =>
        /\ selectedFields = <<>> =>
              queryText = "SELECT Id FROM " \o currentObject \o " LIMIT 2000"
        /\ DirectTexts(selectedFields, baseChildRels) = <<>> =>
              \E o \in RelOrders(selectedFields, baseChildRels) :
                 LET clauses == [i \in DOMAIN o |->
                        ", (SELECT "
                        \o Join(SubSelectTexts(selectedFields, o[i]), ", ")
                        \o " FROM " \o o[i] \o ")"]
                 IN queryText = "SELECT Id" \o Join(clauses, "") \o " FROM "
                                \o currentObject \o " LIMIT 2000"

C12_Witness ==
    /\ selectedFields = <<>>
    /\ queryText = "SELECT Id FROM Order_Event__e LIMIT 2000"

(***************************************************************************)
(* C13.  updateQuery partitions the SelectionSet: the paths that start     *)
(* with a child relationship name of the root object go, in selection      *)
(* order and stripped of that segment (Id if nothing remains), to the      *)
(* sub-select of that relationship and nowhere else; every other path is a *)
(* direct field, verbatim and once; and each relationship with a selected  *)
(* path has exactly one sub-select.                                        *)
(***************************************************************************)
C13_SelectionPartitioned ==
    Synthesized =>
        LET names == ChildRelNames(baseChildRels)
            keys == SubqueryKeys(selectedFields, names, {})
            standardFields == StandardFields(selectedFields, names)
        IN /\ standardFields = DirectTexts(selectedFields, baseChildRels)
           /\ Range(keys) = UsedRels(selectedFields, baseChildRels)
           /\ \A i, j \in DOMAIN keys : keys[i] = keys[j] => i = j
           /\ \A rel \in names :
                 SubqueryFields(selectedFields, rel)
                    = SubSelectTexts(selectedFields, rel)
           /\ Len(standardFields)
                 + Cardinality({kn \in (DOMAIN keys) \X (1..Len(selectedFields)) :
                      kn[2] <= Len(SubqueryFields(selectedFields, keys[kn[1]]))})
              = Len(selectedFields)
           /\ queryText = DescribedText(currentObject, baseChildRels,
                                        selectedFields, keys, ", (SELECT ")

C13_Witness ==
    /\ Synthesized
    /\ selectedFields = <<<<"Contacts">>, <<"Parent", "Name">>,
                          <<"Contacts", "Account", "Name">>>>
    /\ baseChildRels = <<ChildRel("Contacts", "Contact")>>
    /\ queryText = "SELECT Parent.Name, (SELECT Id, Account.Name FROM Contacts) FROM Account LIMIT 2000"

(***************************************************************************)
(* C14.  After every step that changes the SelectionSet or applies a root  *)
(* schema, the query text is the text synthesized from the selected root   *)
(* object, with the child relationships that object has, and the           *)
(* SelectionSet.                                                           *)
(***************************************************************************)
ChildRelsOf(object) == describeSObject(object, "ok").childRelationships

C14_TextSynthesizedAfterMutation ==
    [][(selectedFields' # selectedFields \/ (RootReplyAtHead /\ Delivers))
        => \E o \in RelOrders(selectedFields', ChildRelsOf(currentObject')) :
              queryText' = DescribedText(currentObject',
                                         ChildRelsOf(currentObject'),
                                         selectedFields', o, ", (SELECT ")]_vars

(***************************************************************************)
(* The columns of the table drawn for the record list allResults, and      *)
(* where a scan of the records in list order, of each record's keys in key *)
(* order and of a nested record's keys in key order observes each column.  *)
(***************************************************************************)
TableDrawn == resultsList.kind = "table" /\ resultsList.rows = allResults
TableColumns == resultsList.cols

EntriesOf(records) ==
    {<<i, j>> \in (DOMAIN records) \X (1..4) :
        j \in DOMAIN records[i] /\ records[i][j].k # "attributes"}
HoldsNested(records, key) ==
    \E ij \in EntriesOf(records) :
       LET e == records[ij[1]][ij[2]]
       IN e.k = key /\ e.v.t = "object"
            /\ \E n \in DOMAIN e.v.o : e.v.o[n].k # "attributes"
HoldsSubResult(records, key) ==
    \E ij \in EntriesOf(records) :
       LET e == records[ij[1]][ij[2]] IN e.k = key /\ e.v.t = "subresult"
KeysOf(records) == {records[ij[1]][ij[2]].k : ij \in EntriesOf(records)}

Observations(records) ==
    UNION {LET e == records[ij[1]][ij[2]]
           IN IF e.v.t = "subresult"
              THEN {[at |-> <<ij[1], ij[2], 0>>, col |-> Column(<<e.k>>, TRUE)]}
              ELSE IF e.v.t = "object"
              THEN {[at |-> <<ij[1], ij[2], n>>,
                     col |-> Column(<<e.k, e.v.o[n].k>>, FALSE)] :
                      n \in {m \in DOMAIN e.v.o : e.v.o[m].k # "attributes"}}
              ELSE {[at |-> <<ij[1], ij[2], 0>>, col |-> Column(<<e.k>>, FALSE)]} :
           ij \in EntriesOf(records)}
Before(p, q) ==
    \/ p[1] < q[1]
    \/ p[1] = q[1] /\ p[2] < q[2]
    \/ p[1] = q[1] /\ p[2] = q[2] /\ p[3] < q[3]
FirstObserved(records, c) ==
    (CHOOSE o \in Observations(records) :
        /\ o.col = c
        /\ \A o2 \in Observations(records) : o2.col = c => ~Before(o2.at, o.at)).at

(***************************************************************************)
(* C15.  The columns never hold a column X together with a column that     *)
(* starts with "X."; a key that holds a nested record in some record has   *)
(* no column of its own; and the records {Id 1, Owner {Name A}},           *)
(* {Id 2, Owner {Name B}} give the columns Id, Owner.Name.                 *)
(***************************************************************************)
C15_NoParentBesideSubColumns ==
    TableDrawn =>
        /\ \A c, d \in Range(TableColumns) :
              ~(/\ ~c.subquery
                /\ Len(d.path) > Len(c.path)
                /\ \A n \in DOMAIN c.path : d.path[n] = c.path[n])
        /\ \A key \in KeysOf(allResults) :
              HoldsNested(allResults, key)
                 => /\ Column(<<key>>, FALSE) \notin Range(TableColumns)
                    /\ \E c \in Range(TableColumns) :
                          Len(c.path) = 2 /\ c.path[1] = key
        /\ allResults = OwnerExample =>
              [n \in DOMAIN TableColumns |-> ColumnText(TableColumns[n])]
                 = <<"Id", "Owner.Name">>

C15_Witness ==
    /\ TableDrawn
    /\ \E i, j \in DOMAIN allResults :
          /\ \E n \in DOMAIN allResults[i] : allResults[i][n] = KV("Owner", Null)
          /\ HoldsNested(<<allResults[j]>>, "Owner")
    /\ Column(<<"Owner", "Name">>, FALSE) \in Range(TableColumns)

C17_AttributesNeverAColumn ==
    TableDrawn =>
        \A n \in DOMAIN TableColumns :
           \A m \in DOMAIN TableColumns[n].path :
              TableColumns[n].path[m] # "attributes"

C17_Witness ==
    /\ TableDrawn
    /\ \E i \in DOMAIN allResults :
          /\ allResults[i][1].k = "attributes"
          /\ \E n \in DOMAIN allResults[i] :
                /\ allResults[i][n].v.t = "object"
                /\ allResults[i][n].k = "Owner"
                /\ allResults[i][n].v.o[1].k = "attributes"
    /\ Column(<<"Owner", "Id">>, FALSE) \in Range(TableColumns)

(***************************************************************************)
(* C18.  Every column is there once, and the columns stand in the order in *)
(* which the scan of the records first observes them.                      *)
(***************************************************************************)
C18_ColumnsInFirstObservedOrder ==
    TableDrawn =>
        /\ \A n \in DOMAIN TableColumns :
              TableColumns[n] \in {o.col : o \in Observations(allResults)}
        /\ \A a, b \in DOMAIN TableColumns :
              a < b => /\ TableColumns[a] # TableColumns[b]
                       /\ Before(FirstObserved(allResults, TableColumns[a]),
                                 FirstObserved(allResults, TableColumns[b]))

C18_Witness ==
    /\ TableDrawn
    /\ Len(allResults) = 2
    /\ [n \in DOMAIN TableColumns |-> ColumnText(TableColumns[n])]
          = <<"Contacts (Subquery)", "Id", "Owner.Name", "Owner.Id">>

(***************************************************************************)
(* Paging: the number of pages of the record list at the page size, and    *)
(* the state in which the results list shows the answer of the query.      *)
(***************************************************************************)
TotalPages == (Len(allResults) + pageSize - 1) \div pageSize
ResultsShown == ~queryLoading /\ resultsList.kind # "spinner"

(***************************************************************************)
(* C19.  For n records, page size s and a valid page p the rows shown are  *)
(* the records (p-1)*s+1 .. min(p*s, n) of the list, in its order; 120     *)
(* records at page size 50 show on page 3 the 20 records 101..120; with no *)
(* records no row is shown.                                                *)
(***************************************************************************)
C19_RowsAreThePageSlice ==
    ResultsShown =>
        LET n == Len(allResults)
            s == pageSize
            p == currentPage
            last == IF p * s < n THEN p * s ELSE n
        IN /\ n = 0 => resultsList.kind = "empty"
           /\ (n > 0 /\ 1 <= p /\ p <= TotalPages) =>
                 /\ resultsList.kind = "table"
                 /\ resultsList.rows
                       = [i \in 1..(last - (p - 1) * s) |->
                             allResults[(p - 1) * s + i]]
           /\ (n = 120 /\ s = 50 /\ p = 3) =>
                 /\ Len(resultsList.rows) = 20
                 /\ \A i \in 1..20 :
                       resultsList.rows[i]
                          = <<Attributes("Account"),
                              KV("Id", Str(ToString(100 + i)))>>

C19_Witness ==
    /\ ResultsShown
    /\ Len(allResults) = 120
    /\ pageSize = 50
    /\ currentPage = 3
    /\ Len(resultsList.rows) = 20

RECURSIVE Follow(_, _)
Follow(value, segments) ==
    IF segments = <<>> THEN value
    ELSE IF value.t # "object" THEN Null
    ELSE IF ~\E i \in DOMAIN value.o : value.o[i].k = Head(segments) THEN Null
    ELSE Follow(value.o[CHOOSE i \in DOMAIN value.o :
                           value.o[i].k = Head(segments)].v,
                Tail(segments))

IsEmptyValue(v) == v.t \in {"null", "undefined"}

ExportedContents ==
    (IF clipboard # "" THEN {clipboard} ELSE {})
    \cup {req.content : req \in {q \in BagToSet(requests) : q.command = "saveFile"}}
    \cup Range(savedFiles)

Count(pieces, x) == Cardinality({i \in DOMAIN pieces : pieces[i] = x})

CsvOfExportA == "Id,Name,Owner.Name\n\"001A\",\"He said \"\"hi\"\"\",\"Ann\"\n"
TsvOfExportA == "Id\tName\tOwner.Name\n\"001A\"\t\"He said \"\"hi\"\"\"\t\"Ann\"\n"

(***************************************************************************)
(* C22.  With either delimiter, every data cell of the export begins and   *)
(* ends with a double quote and holds between them the text of the value   *)
(* with each double quote written twice, and no double quote on its own;   *)
(* the value He said "hi" is the cell "He said ""hi""", and the one record *)
(* that holds it is exported as the text given above.                      *)
(***************************************************************************)
C22_CellsQuotedQuotesDoubled ==
    ResultsShown =>
        /\ \A format \in Formats :
              LET out == exportData(allResults, format)
              IN \A i \in DOMAIN out.rows, j \in DOMAIN out.cols :
                    LET cell == out.rows[i][j]
                        val == getValueByPath(allResults[i], out.cols[j])
                        inner == SubSeq(cell, 2, Len(cell) - 1)
                    IN /\ Len(cell) >= 2
                       /\ cell[1] = "\""
                       /\ cell[Len(cell)] = "\""
                       /\ Count(inner, "\"") = 0
                       /\ Truthy(val) =>
                             /\ Len(inner) = Len(StringPieces(val))
                             /\ \A k \in DOMAIN inner :
                                   IF StringPieces(val)[k] = "\""
                                   THEN inner[k] = "\"\""
                                   ELSE inner[k] = StringPieces(val)[k]
                       /\ val = QuotedExample =>
                             Flat(cell) = "\"He said \"\"hi\"\"\""
        /\ ExportedContents
              \subseteq {exportData(allResults, format).content : format \in Formats}
        /\ allResults = <<ExportA>> =>
              ExportedContents \subseteq {CsvOfExportA, TsvOfExportA}

\* the record with the quoted value was saved with commas and copied with tabs
C22_Witness ==
    /\ ResultsShown
    /\ allResults = <<ExportA>>
    /\ "export.csv" \in DOMAIN savedFiles
    /\ savedFiles["export.csv"] = CsvOfExportA
    /\ clipboard = TsvOfExportA

\* a key that holds a sub-result in some record of the list
SubResultKey(records, key) ==
    \E r \in Range(records) :
       \E i \in DOMAIN r : r[i].k = key /\ r[i].v.t = "subresult"

(***************************************************************************)
(* C23.  The columns of the export header are the columns extractColumns   *)
(* gives for the record list without its (Subquery) summary columns, each  *)
(* once and in the same order; none of them is a summary column or the key *)
(* of a sub-result; the header line is their names joined by the           *)
(* delimiter.                                                              *)
(***************************************************************************)
C23_HeaderIsColumnsWithoutSummaries ==
    ResultsShown =>
        \A format \in Formats :
           LET out == exportData(allResults, format)
               all == extractColumns(allResults)
           IN /\ Range(out.cols) = {c \in Range(all) : ~c.subquery}
              /\ \A i, j \in DOMAIN out.cols :
                    i < j => \E a, b \in DOMAIN all :
                                /\ a < b
                                /\ all[a] = out.cols[i]
                                /\ all[b] = out.cols[j]
              /\ \A c \in Range(out.cols) :
                    /\ ~c.subquery
                    /\ ~(Len(c.path) = 1 /\ SubResultKey(allResults, c.path[1]))
              /\ allResults = <<ExportA, ExportB>> =>
                    \A text \in ExportedContents :
                       \E rest \in {RowsText(out.rows, sep) : sep \in {",", "\t"}} :
                          text \in {"Id,Name,Owner.Name\n" \o rest,
                                    "Id\tName\tOwner.Name\n" \o rest}

\* a list with a sub-result was exported: the table shows the summary
\* column, the export has the other three
C23_Witness ==
    /\ ResultsShown
    /\ allResults = <<ExportA, ExportB>>
    /\ clipboard # ""
    /\ [path |-> <<"Contacts">>, subquery |-> TRUE] \in Range(resultsList.cols)
    /\ Len(exportData(allResults, "csv").cols) = 3

\* the columns of the drawn table without its summary columns
DisplayedColumns ==
    LET NotSummary(c) == ~c.subquery
    IN SelectSeq(resultsList.cols, NotSummary)

(***************************************************************************)
(* C24 as stated.  On every page and with every page size, the export has  *)
(* the columns the table shows, without the summary columns, and one row   *)
(* for each row the table shows.                                           *)
(***************************************************************************)
C24_ExportIsTheDisplayedView ==
    (ResultsShown /\ resultsList.kind = "table") =>
        \A format \in Formats :
           LET out == exportData(allResults, format)
           IN /\ out.cols = DisplayedColumns
              /\ out.rows = [i \in DOMAIN resultsList.rows |->
                               ExportRow(resultsList.rows[i], out.cols)]

(***************************************************************************)
(* C24 amended.  On every page and with every page size, the export has    *)
(* the columns of the whole record list, without the summary columns, and  *)
(* one row for each record of the list; these are the columns and the rows *)
(* the table shows when the page size is not smaller than the list.        *)
(***************************************************************************)
C24_ExportIsTheWholeList ==
    (ResultsShown /\ resultsList.kind = "table") =>
        /\ \A format \in Formats :
              LET out == exportData(allResults, format)
                  NotSummary(c) == ~c.subquery
              IN /\ out.cols = SelectSeq(extractColumns(allResults), NotSummary)
                 /\ out.rows = [i \in DOMAIN allResults |->
                                  ExportRow(allResults[i], out.cols)]
                 /\ Len(allResults) <= pageSize =>
                       /\ out.cols = DisplayedColumns
                       /\ out.rows = [i \in DOMAIN resultsList.rows |->
                                        ExportRow(resultsList.rows[i], out.cols)]
        /\ ExportedContents
              \subseteq {exportData(allResults, format).content : format \in Formats}

\* eleven records were copied from the second page of ten: the table shows
\* one row, the export has eleven
C24_Witness ==
    /\ ResultsShown
    /\ Len(allResults) = 11
    /\ pageSize = 10
    /\ currentPage = 2
    /\ Len(resultsList.rows) = 1
    /\ clipboard = exportData(allResults, "csv").content
    /\ Len(exportData(allResults, "csv").rows) = 11

CsvOfExportDA ==
    "Name,Id,Owner.Name\n"
    \o "\"Solo, Inc\",\"\",\"\"\n"
    \o "\"He said \"\"hi\"\"\",\"001A\",\"Ann\"\n"

(***************************************************************************)
(* C25.  The export is the header line and then one line for each record   *)
(* of the list, in the order of the list, each line ended by a newline;    *)
(* the line of a record has one quoted cell for each column of the header, *)
(* in the order of the header, and the cell of a column the record does    *)
(* not have is the empty quoted cell.                                      *)
(***************************************************************************)
C25_OneLinePerRecordOneCellPerColumn ==
    ResultsShown =>
        /\ \A format \in Formats :
              LET out == exportData(allResults, format)
                  header == Join([j \in DOMAIN out.cols |-> ColumnText(out.cols[j])],
                                 out.separator)
                  lines == [i \in DOMAIN out.rows |->
                              Join([j \in DOMAIN out.rows[i] |-> Flat(out.rows[i][j])],
                                   out.separator)]
              IN /\ Len(out.rows) = Len(allResults)
                 /\ \A i \in DOMAIN out.rows :
                       /\ Len(out.rows[i]) = Len(out.cols)
                       /\ \A j \in DOMAIN out.cols :
                             /\ out.rows[i][j] = ExportCell(allResults[i], out.cols[j])
                             /\ Follow(Obj(allResults[i]), out.cols[j].path) = Null
                                   => out.rows[i][j] = <<"\"", "\"">>
                 /\ allResults # <<>> =>
                       out.content = Join(<<header>> \o lines, "\n") \o "\n"
        /\ ExportedContents
              \subseteq {exportData(allResults, format).content : format \in Formats}
        /\ allResults = <<ExportD, ExportA>> =>
              exportData(allResults, "csv").content = CsvOfExportDA

\* a record without Id and Owner was exported before one that has them
C25_Witness ==
    /\ ResultsShown
    /\ allResults = <<ExportD, ExportA>>
    /\ clipboard = CsvOfExportDA

\* the list is in ascending order of the names key gives
Ascending(list, Key(_)) ==
    \A i, j \in DOMAIN list : i < j => Rank(Key(list[i])) <= Rank(Key(list[j]))

FieldName(f) == f.name
RelationshipName(r) == r.relationshipName

(***************************************************************************)
(* C26.  For every object that is described, the fields of the answer are  *)
(* the fields the CLI reports, in ascending order of their names, and the  *)
(* child relationships of the answer are the child relationships the CLI   *)
(* reports with a non-empty relationship name, in ascending order of that  *)
(* name; and every schema message on its way to the webview carries the    *)
(* answer for its object, or empty lists when the CLI call failed.         *)
(***************************************************************************)
C26_DescribeSortedAndNamed ==
    /\ \A req \in BagToSet(requests) :
          req.command = "describeObject" =>
             LET described == describeSObject(req.sobject, "ok")
                 reported == CliChildRelationships(req.sobject)
             IN /\ Ascending(described.fields, FieldName)
                /\ Len(described.fields) = Len(CliFields(req.sobject))
                /\ {[name |-> f.name, type |-> f.type] : f \in Range(described.fields)}
                      = {[name |-> f.name, type |-> f.type] :
                            f \in Range(CliFields(req.sobject))}
                /\ Ascending(described.childRelationships, RelationshipName)
                /\ Range(described.childRelationships)
                      = {r \in Range(reported) : r.relationshipName # ""}
                /\ Len(described.childRelationships)
                      = Cardinality({i \in DOMAIN reported :
                                        reported[i].relationshipName # ""})
    /\ \A i \in DOMAIN inbox :
          inbox[i].command = "setFields" =>
             /\ Ascending(inbox[i].fields, FieldName)
             /\ Ascending(inbox[i].childRelationships, RelationshipName)
             /\ \A r \in Range(inbox[i].childRelationships) :
                   r.relationshipName # ""
             /\ \E cli \in CliOutcomes :
                   LET described == describeSObject(inbox[i].forObject, cli)
                   IN /\ inbox[i].fields = described.fields
                      /\ inbox[i].childRelationships
                            = described.childRelationships

\* the answer for Case is on its way: the CLI reported Subject, Id,
\* ContactId and the relationships Cases, an unnamed one and Attachments
C26_Witness ==
    /\ inbox # <<>>
    /\ Head(inbox).command = "setFields"
    /\ Head(inbox).forObject = "Case"
    /\ [i \in DOMAIN Head(inbox).fields |-> Head(inbox).fields[i].name]
          = <<"ContactId", "Id", "Subject">>
    /\ Head(inbox).childRelationships
          = <<ChildRel("Attachments", "Attachment"), ChildRel("Cases", "Case")>>

\* the query requests the host has not answered yet
QueryPending ==
    \E req \in BagToSet(requests) : req.command = "runQuery"

(***************************************************************************)
(* C27 as stated.  A pending query has two outcomes.  When the CLI exits   *)
(* with success, executeQuery returns the totalSize and the records of the *)
(* CLI's result; when the command fails, it throws an Error whose message  *)
(* is the message of the CLI's JSON output.                                *)
(***************************************************************************)
C27_TwoOutcomes ==
    QueryPending =>
       \A cli \in CliQueryOutcomes :
          LET result == executeQuery(cli)
          IN IF cli.kind \in {"ok", "noresult"}
             THEN /\ ~result.threw
                  /\ cli.kind = "ok"
                  /\ result.totalSize = cli.totalSize
                  /\ result.records = cli.records
             ELSE /\ result.threw
                  /\ cli.kind = "fail"
                  /\ result.message = cli.stdoutMessage

(***************************************************************************)
(* C27 amended.  A pending query has three outcomes.  When the CLI exits   *)
(* with success and a result, executeQuery returns the totalSize and the   *)
(* records of that result; when it exits with success and no result,       *)
(* executeQuery returns totalSize 0 and no records; when the command fails *)
(* or its output is not JSON, executeQuery throws an Error and returns no  *)
(* records: its message is the message of the CLI's JSON output if that    *)
(* has one, "Query failed" if the JSON output has none, and the message of *)
(* the failure if there is no JSON output.  What the host then posts and   *)
(* shows is one of these.                                                  *)
(***************************************************************************)
C27_ThreeOutcomes ==
    /\ QueryPending =>
          \A cli \in CliQueryOutcomes :
             LET result == executeQuery(cli)
             IN CASE cli.kind = "ok" ->
                       /\ ~result.threw
                       /\ result.totalSize = cli.totalSize
                       /\ result.records = cli.records
                  [] cli.kind = "noresult" ->
                       /\ ~result.threw
                       /\ result.totalSize = 0
                       /\ result.records = <<>>
                  [] cli.kind = "notjson" ->
                       /\ result.threw
                       /\ result.records = <<>>
                       /\ result.message = cli.message
                  [] OTHER ->
                       /\ result.threw
                       /\ result.records = <<>>
                       /\ result.message =
                             IF cli.stdoutMessage = "nostdout" THEN cli.message
                             ELSE IF cli.stdoutMessage = "" THEN "Query failed"
                             ELSE cli.stdoutMessage
    /\ \A i \in DOMAIN inbox :
          inbox[i].command = "setResults" =>
             \/ \E cli \in CliQueryOutcomes :
                   /\ cli.kind = "ok"
                   /\ inbox[i].totalSize = cli.totalSize
                   /\ inbox[i].records = cli.records
             \/ inbox[i].totalSize = 0 /\ inbox[i].records = <<>>
    /\ shownErrors \subseteq
          {"Query failed: " \o m :
              m \in {"Malformed Query", "Query failed", "Command failed",
                     "Unexpected token"}}

\* a query failed without JSON output and the next one is answered with two
\* records
C27_Witness ==
    /\ "Query failed: Command failed" \in shownErrors
    /\ inbox # <<>>
    /\ Head(inbox).command = "setResults"
    /\ Head(inbox).totalSize = 2
    /\ Head(inbox).records = <<RecordA, RecordB>>

\* the names a report of the CLI holds
ReportedNames(report) ==
    {report[i].xmlName : i \in DOMAIN report}
    \cup UNION {Range(report[i].childXmlNames) : i \in DOMAIN report}

NoDuplicates(list) ==
    \A i, j \in DOMAIN list : list[i] = list[j] => i = j

AscendingCodeUnits(list) ==
    \A i, j \in DOMAIN list :
       i < j => CodeUnitRank(list[i]) < CodeUnitRank(list[j])

(***************************************************************************)
(* C28.  The list describeMetadata returns has no duplicates and is in     *)
(* ascending order; returned after the CLI command, its names are the      *)
(* xmlNames and the childXmlNames entries the CLI reported, all of them    *)
(* and no others; returned from the cache, it is such a list for a report  *)
(* of the CLI; returned after a failed command, it is empty.               *)
(***************************************************************************)
C28_MetadataTypesUniqueSortedComplete ==
    \A returned \in metadataReturned :
       /\ NoDuplicates(returned.types)
       /\ AscendingCodeUnits(returned.types)
       /\ returned.source = "cli" =>
             Range(returned.types) = ReportedNames(returned.report)
       /\ returned.source = "cache" =>
             \E report \in MetadataReports :
                Range(returned.types) = ReportedNames(report)
       /\ returned.source = "failure" => returned.types = <<>>

\* the CLI reported CustomObject with ListView and CustomField, then
\* CustomField itself
C28_Witness ==
    \E returned \in metadataReturned :
       /\ returned.source = "cli"
       /\ returned.report = <<MetadataObject("CustomObject", <<"ListView", "CustomField">>),
                              MetadataObject("CustomField", <<>>)>>
       /\ returned.types = <<"CustomField", "CustomObject", "ListView">>

MergedManifest ==
    <<Prolog, W0, PackageOpen, W4, VersionLine, W4>>
    \o WrittenTypes("ApexClass", <<"ExistingClass", "NewClass">>)
    \o <<W0, "</Package>">>

(***************************************************************************)
(* C29.  Whatever the manifest file is, missing or written before, and     *)
(* whatever items updateManifest is given: the items readManifest returns  *)
(* from the file it writes are the items readManifest returned before      *)
(* together with the given items, each pair of type and fullName once; and *)
(* updateManifest with the same items on the file it wrote writes the same *)
(* content again.  The manifest of one ExistingClass updated with NewClass *)
(* holds both.                                                             *)
(***************************************************************************)
C29_UpdateMergesAndIsIdempotent ==
    /\ \A items \in ItemLists :
          LET written == updateManifest(manifestFile, items)
          IN /\ Range(readManifest(written))
                   = Range(readManifest(manifestFile)) \cup Range(items)
             /\ NoDuplicates(readManifest(written))
             /\ updateManifest(written, items) = written
    /\ manifestFile = File(ExistingManifest) =>
          updateManifest(manifestFile, <<Item("ApexClass", "NewClass")>>)
             = File(MergedManifest)

\* the manifest of ExistingClass was updated with NewClass
C29_Witness ==
    /\ manifestFile = File(MergedManifest)
    /\ readManifest(manifestFile)
          = <<Item("ApexClass", "ExistingClass"), Item("ApexClass", "NewClass")>>

\* the query requests a step posts
QueriesPosted ==
    {m \in BagToSet(requests') :
        /\ m.command = "runQuery"
        /\ CopiesIn(m, requests') > CopiesIn(m, requests)}

(***************************************************************************)
(* C30.  A step that posts a query request posts one request, with the     *)
(* text the query box holds, and shows the spinner and the loading         *)
(* overlay; the overlay is shown by no other step; and while the box is    *)
(* empty no step posts a query request or shows the overlay.               *)
(***************************************************************************)
C30_RunSubmitsTheBoxContent ==
    [][/\ \A m \in QueriesPosted :
             /\ m.query = queryText
             /\ m.query # ""
             /\ CopiesIn(m, requests') = CopiesIn(m, requests) + 1
             /\ QueriesPosted = {m}
             /\ queryLoading'
             /\ resultsList' = [kind |-> "spinner"]
       /\ (~queryLoading /\ queryLoading') => QueriesPosted # {}
       /\ queryText = "" =>
             /\ QueriesPosted = {}
             /\ queryLoading' = queryLoading \/ ~queryLoading']_vars

\* the default synthesized for Account was submitted, and then the text
\* typed over it
C30_Witness ==
    /\ queryLoading
    /\ queryText = "SELECT Id FROM Contact"
    /\ BagIn([command |-> "runQuery",
              query |-> "SELECT Id, Name FROM Account LIMIT 2000"], requests)
    /\ BagIn([command |-> "runQuery", query |-> "SELECT Id FROM Contact"],
             requests)


(***************************************************************************)
(* C31.  A reply to an expand request that was posted under a previous     *)
(* root object and is delivered after the new root's schema was applied is *)
(* discarded: relData keeps only paths requested after that load.  A reply *)
(* for a one-segment path the displayed root has no expander for cannot    *)
(* have been requested since the load that displayed this root, so         *)
(* delivering it while the selected root's schema is displayed leaves      *)
(* relData as it was.                                                      *)
(***************************************************************************)
\* the one-segment paths the tree of the displayed root has an expander for
RootExpanderPaths ==
    {e.path : e \in {x \in renderFields.expanders : Len(x.path) = 1}}

\* the schema of the selected root object is the one displayed, and the
\* reply at the head answers an expand request of another root's tree
StalePathReplyAtHead ==
    /\ PathReplyAtHead
    /\ currentObject # ""
    /\ baseFields = describeSObject(currentObject, "ok").fields
    /\ baseChildRels = describeSObject(currentObject, "ok").childRelationships
    /\ Len(Head(inbox).parentPath) = 1
    /\ Head(inbox).parentPath \notin RootExpanderPaths

C31_StalePathReplyDiscarded ==
    [][(StalePathReplyAtHead /\ Delivers) => relData' = relData]_vars


(***************************************************************************)
(* C32.  Expanding or collapsing a relationship leaves the query text as   *)
(* it is: neither the click on an expander nor the arrival of the schema   *)
(* of the expanded path changes the text box, so typed text stays until    *)
(* the next field toggle or root load.                                     *)
(***************************************************************************)
\* the step is a click on an expander, or delivers the schema of a path
ExpandsOrCollapses ==
    \/ \E p \in DOMAIN relData : Collapses(p)
    \/ \E r \in PostedDescribes : r.parentPath # <<>>
    \/ PathReplyAtHead /\ Delivers

C32_ExpandCollapseKeepsText ==
    [][ExpandsOrCollapses => queryText' = queryText]_vars


(***************************************************************************)
(* C33.  The text lists the direct fields in the order in which they were  *)
(* added to the SelectionSet and the sub-selects in the order in which the *)
(* first selected path of each relationship was added; unchecking a field  *)
(* and checking it again leaves the members as they were and moves the     *)
(* field behind all others.                                                *)
(***************************************************************************)
\* position of the first selected path under the relationship rel
FirstAdded(sel, rel) ==
    CHOOSE i \in DOMAIN sel :
        sel[i][1] = rel /\ \A j \in DOMAIN sel : sel[j][1] = rel => i <= j

\* the used relationships, by the position of their first selected path
FirstAddedOrder(sel, rels) ==
    CHOOSE o \in RelOrders(sel, rels) :
        \A i, j \in DOMAIN o :
            i < j => FirstAdded(sel, o[i]) < FirstAdded(sel, o[j])

\* sel without the path f, the others in their order
Without(sel, f) == LET Other(p) == p # f IN SelectSeq(sel, Other)

C33_TextInSelectionOrder ==
    (currentObject # "" /\ queryText # "") =>
        /\ queryText = DescribedText(currentObject, baseChildRels,
                          selectedFields,
                          FirstAddedOrder(selectedFields, baseChildRels),
                          ", (SELECT ")
        /\ \A f \in Range(selectedFields) :
              LET unselected == cbOnChange(selectedFields, f, FALSE)
                  reselected == cbOnChange(unselected, f, TRUE)
              IN /\ unselected = Without(selectedFields, f)
                 /\ reselected = Append(Without(selectedFields, f), f)
                 /\ Range(reselected) = Range(selectedFields)
                 /\ updateQuery(currentObject, baseChildRels, reselected,
                                queryText)
                    = DescribedText(currentObject, baseChildRels, reselected,
                         FirstAddedOrder(reselected, baseChildRels),
                         ", (SELECT ")

\* Subject was unchecked and checked again and now follows Id; the
\* sub-select of Cases, selected first, precedes that of Attachments
C33_Witness ==
    /\ selectedFields = <<<<"Cases", "Id">>, <<"Id">>,
                          <<"Attachments", "Name">>, <<"Subject">>,
                          <<"Cases", "Subject">>>>
    /\ queryText = "SELECT Id, Subject, (SELECT Id, Subject FROM Cases), (SELECT Name FROM Attachments) FROM Case LIMIT 2000"


(***************************************************************************)
(* C34.  Whenever the record list is not empty the current page is between *)
(* 1 and ceil(count / pageSize) and its slice of the list is not empty,    *)
(* whatever results arrived and whatever the user did with the Next and    *)
(* Prev buttons, the page input and the page size choice; and a step that  *)
(* replaces the record list or changes the page size makes page 1 the      *)
(* current page.                                                           *)
(***************************************************************************)
\* the records of the current page
PageSlice ==
    {i \in DOMAIN allResults :
        (currentPage - 1) * pageSize < i /\ i <= currentPage * pageSize}

PageInRange ==
    allResults # <<>> =>
        /\ 1 <= currentPage
        /\ currentPage <= TotalPages
        /\ PageSlice # {}
        /\ resultsList.kind = "table" => resultsList.rows # <<>>

\* the step applies a result set
ResultsArrive ==
    inbox # <<>> /\ Head(inbox).command = "setResults" /\ Delivers

C34_PageAlwaysInRange ==
    /\ []PageInRange
    /\ [][(ResultsArrive \/ pageSize' # pageSize) => currentPage' = 1]_vars

\* the last record of a list of 11 is shown alone on page 2, after a list
\* of 26 records had been paged through at another page size
C34_Witness ==
    /\ Len(allResults) = 11
    /\ pageSize = 10
    /\ currentPage = 2
    /\ resultsList.kind = "table"
    /\ Len(resultsList.rows) = 1


(***************************************************************************)
(* C35.  A collapse removes the entry of exactly the collapsed path: the   *)
(* entries of the longer paths that extend it stay as they are.  When the  *)
(* schema of the path arrives again, those descendants, hidden while the   *)
(* path was collapsed, are still cached and, the schema having fields, are *)
(* drawn expanded again, and no describe request is posted for them.       *)
(***************************************************************************)
\* q is a longer path that extends p
Extends(q, p) == Len(q) > Len(p) /\ SubSeq(q, 1, Len(p)) = p

\* the tree draws the node of q, and draws it expanded
DrawnExpanded(q) ==
    /\ q \in DOMAIN relData
    /\ \E e \in renderFields.expanders : e.path = q

CollapseKeepsOthers ==
    \A p \in DOMAIN relData :
        Collapses(p) =>
            /\ DOMAIN relData' = DOMAIN relData \ {p}
            /\ \A q \in DOMAIN relData' : relData'[q] = relData[q]

ReExpandShowsDescendants ==
    (PathReplyAtHead /\ Delivers) =>
        \A q \in DOMAIN relData :
            Extends(q, Head(inbox).parentPath)
            /\ Head(inbox).parentPath \notin DOMAIN relData =>
                /\ ~DrawnExpanded(q)
                /\ q \in DOMAIN relData'
                /\ relData'[q] = relData[q]
                /\ Head(inbox).fields # <<>> => DrawnExpanded(q)'
                /\ PostedDescribes = {}

C35_CollapseRemovesOnlyThatPath ==
    [][CollapseKeepsOthers /\ ReExpandShowsDescendants]_vars

\* Parent was collapsed while Parent.Parent was expanded, which left the
\* entry of Parent.Parent alone and hidden; Parent was clicked again and its
\* schema is about to be applied
C35_Witness ==
    /\ DOMAIN relData = {<<"Parent", "Parent">>}
    /\ ~DrawnExpanded(<<"Parent", "Parent">>)
    /\ PathReplyAtHead
    /\ Head(inbox).parentPath = <<"Parent">>
    /\ Head(inbox).fields # <<>>


(***************************************************************************)
(* C36.  For every record of the list and every exported column, the text  *)
(* between the quotes of the exported cell, its doubled quotes read as     *)
(* single ones, is the text the results table shows in the cell of that    *)
(* record and column: empty for null and absent values, the value's own    *)
(* text otherwise, 0, false and nested objects included.                   *)
(***************************************************************************)
\* the text between the quotes of an exported cell, by its pieces
Unquoted(cell) ==
    LET inner == SubSeq(cell, 2, Len(cell) - 1)
    IN [i \in DOMAIN inner |-> IF inner[i] = "\"\"" THEN "\"" ELSE inner[i]]

C36_ExportTextIsDisplayText ==
    \A i \in DOMAIN allResults :
        LET out == exportData(allResults, "csv")
        IN \A j \in DOMAIN out.cols :
              Flat(Unquoted(out.rows[i][j]))
                 = Cell(allResults[i], out.cols[j]).text


(***************************************************************************)
(* C37.  The cached list of metadata types is never stale across an org    *)
(* switch: while no setTargetOrg or login call is running, the list a      *)
(* describeMetadata call without refresh returns from the cache was        *)
(* fetched from the org that is the target org, also when a describe call  *)
(* was running while the org was switched.                                 *)
(***************************************************************************)
C37_CacheNeverStaleAcrossSwitch ==
    (orgSwitches = {} /\ metadataCache # NoCache) =>
        metadataCache.org = targetOrg

====
